---- MODULE Spec2Model ----
(***************************************************************************)
(* A model of the coc-airdrop-bot orchestrators (runCreate, runClaim),     *)
(* their ledgers (the Wallets sheet and the Accounts sheet of the Excel    *)
(* workbook) and the retry policy withRetry.                               *)
(*                                                                         *)
(* Spec      : one CLI process at a time running `create` or `claim`,      *)
(*             killed at any await and restarted any number of times.      *)
(* SpecRetry : withRetry alone, applied to every scripted operation.       *)
(* SpecClaimWorkflow : MiniAppClaimer.performClaim alone, step by step,    *)
(*             applied to every explored surface.                          *)
(***************************************************************************)
EXTENDS Integers, Sequences, FiniteSets, TLC

(***************************************************************************)
(* Bounds of the model.                                                    *)
(***************************************************************************)
MaxWalletCount == 2
MaxStartIndex  == 1
MaxRetriesCfg  == 1
NumAccounts    == 3
MaxRetriesOpt  == 3
MaxFailures    == 2
MaxCandidates  == 3   \* longest locator list given to findByMultipleSelectors
MaxElementTimeout == 2100   \* largest timing.elementTimeout, in milliseconds

(***************************************************************************)
(* Program constants.                                                      *)
(***************************************************************************)
BasePinDefault == 632700
PinLength      == 6

\* The value of a property that was never set (JavaScript undefined).
Undefined == "undefined"

VARIABLES
  command,        \* process.argv[2]: "create" or "claim"
  pc,             \* position of the running process
  pendingErr,     \* an exception is propagating through finally to main
  exitCode,       \* process exit code once the process has ended, else "none"
  config,         \* loadConfig(): startIndex, walletCount, maxRetries
  creator,        \* which WalletCreator.createWallet the build contains
  wallets,        \* the Wallets sheet: data rows in sheet order
  i,              \* runCreate: loop variable
  startIdx,       \* runCreate: const startIndex
  endIdx,         \* runCreate: const endIndex
  attempt,        \* withRetry: loop variable
  walletData,     \* runCreate: const walletData (result held in memory)
  processed,      \* history: unit indices whose processing began in this run
  walletsAtStart, \* history: the Wallets sheet as the run found it
  aborted,        \* history: what made the run leave its unit loop early
  writeFailed,    \* history: a ledger write of this run has raised
  accounts,       \* the Accounts sheet: data rows in sheet order
  pendingAccounts,\* AccountManager.pendingAccounts
  currentIndex,   \* AccountManager.currentIndex
  account,        \* runClaim: let account
  isFirstAccount, \* runClaim: let isFirstAccount
  claimResult,    \* runClaim: const claimResult (result held in memory)
  errorMsg,       \* runClaim: const errorMsg of the catch block
  accountsAtInit, \* history: the Accounts sheet as the operator filled it
  written,        \* history: ids whose status write has completed
  options,        \* withRetry: maxRetries, delayMs, backoffMultiplier, onRetry
  script,         \* the operation fn: how often it fails before it succeeds
  rpc,            \* withRetry: position
  rAttempt,       \* withRetry: let attempt
  lastError,      \* withRetry: let lastError
  settled,        \* how the promise withRetry returned has settled
  fnCalls,        \* history: the values fn raised, one per failed invocation
  fnInvocations,  \* history: number of invocations of fn
  onRetryCalls,   \* history: the argument lists onRetry was called with
  waits,          \* history: the delays waited, in order
  recovery,       \* the recovery started by the last onRetry call
  invokedDuringRecovery, \* history: fn was invoked while a recovery ran
  driver,         \* AppiumDriver: this.driver and this.appiumProcess
  inFlight,       \* the device operations issued and not yet settled
  sessionOpened,  \* history: initialize() of this run has opened a session
  cleanedUp,      \* history: cleanup() of this run has been called
  step,           \* performClaim: position
  screen,         \* what the embedded surface shows to performClaim
  miniAppState,   \* performClaim: const state
  deviceLog,      \* history: the interactions performClaim has performed
  returned,       \* what performClaim returned
  pageSource,     \* what getPageSource answers to detectNativeState
  surface,        \* an operation of MiniAppClaimer that switches context
  lookup,         \* an invocation of findByMultipleSelectors
  poll,           \* a polling loop: its timeout, elapsed time and polls
  creation,       \* an invocation of WalletCreator.createWallet
  app,            \* the Base App: who is logged in, and runClaim's account
  servers,        \* the Appium server processes of AppiumDriver
  linking         \* an invocation of assignLinksToAccounts

vars == << command, pc, pendingErr, exitCode, config, creator, wallets, i,
           startIdx, endIdx, attempt, walletData, processed, walletsAtStart,
           aborted, writeFailed, accounts, pendingAccounts, currentIndex,
           account, isFirstAccount, claimResult, errorMsg, accountsAtInit,
           written, options, script, rpc, rAttempt, lastError, settled,
           fnCalls, fnInvocations, onRetryCalls, waits, recovery,
           invokedDuringRecovery, driver, inFlight, sessionOpened, cleanedUp,
           step, screen, miniAppState, deviceLog, returned, pageSource,
           surface, lookup, poll, creation, app, servers, linking >>

\* The variables of a withRetry invocation studied on its own.
retryVars == << options, script, rpc, rAttempt, lastError, settled, fnCalls,
                fnInvocations, onRetryCalls, waits, recovery,
                invokedDuringRecovery >>

\* The variables of the device session of a run.
sessionVars == << driver, inFlight, sessionOpened, cleanedUp >>

\* The variables of a performClaim invocation studied on its own.
workflowVars == << step, screen, miniAppState, deviceLog, returned >>

\* The variables of the operations studied on their own.
flowVars == << app, servers, linking >>

unitVars == << pageSource, surface, lookup, poll, creation, flowVars >>

\* The variables of the process.
processVars == << command, pc, pendingErr, exitCode, config, attempt,
                 processed, aborted, writeFailed >>

\* The variables of the claim flow, which the create flow never touches.
claimVars == << accounts, pendingAccounts, currentIndex, account,
                isFirstAccount, claimResult, errorMsg, accountsAtInit,
                written >>

\* The variables of the create flow, which the claim flow never touches.
createVars == << creator, wallets, i, startIdx, endIdx, walletData,
                 walletsAtStart >>

(***************************************************************************)
(* generatePin: String(basePin + index).padStart(6, "0"), as a sequence of *)
(* decimal digits.                                                         *)
(***************************************************************************)
RECURSIVE DecimalDigits(_)
DecimalDigits(n) ==
  IF n < 10 THEN << n >> ELSE Append(DecimalDigits(n \div 10), n % 10)

RECURSIVE padStart(_, _, _)
padStart(s, len, fill) ==
  IF Len(s) >= len THEN s ELSE padStart(<< fill >> \o s, len, fill)

generatePin(index, basePin) == padStart(DecimalDigits(basePin + index), PinLength, 0)

(***************************************************************************)
(* What the screen can yield for the wallet name and address:              *)
(* readWalletName / readWalletAddress return the text read, or "" when     *)
(* the element is missing, its text is empty (or, for the address, does    *)
(* not start with 0x) or the lookup raised.                                *)
(***************************************************************************)
readWalletName    == { "", "name.base.eth" }
readWalletAddress == { "", "0xA1" }

\* new Date().toISOString() at the time the record is built.
Timestamps == { "T" }

\* The messages of the errors the create workflow raises.
CreateErrors == { "'Create Account' button not found on welcome screen" }

\* The record createWallet builds on its success path.
WalletCreated(index, name, address, t) ==
  [ id |-> index, walletName |-> name, walletAddress |-> address,
    pin |-> generatePin(index, BasePinDefault), createdAt |-> t,
    status |-> "created", errorMessage |-> Undefined ]

\* The record wallet-creator.ts's createWallet builds in its catch block.
WalletFailed(index, msg, t) ==
  [ id |-> index, walletName |-> "", walletAddress |-> "",
    pin |-> generatePin(index, BasePinDefault), createdAt |-> t,
    status |-> "failed", errorMessage |-> msg ]

(***************************************************************************)
(* WalletStore: the Wallets sheet.  A data row holds the six columns of    *)
(* WALLET_COLUMNS; there is no column for errorMessage.                    *)
(***************************************************************************)
WALLET_COLUMNS == { "id", "walletName", "walletAddress", "pin", "createdAt", "status" }

\* sheet.addRow({...}) followed by pinCell.value = wallet.pin
addRow(wallet) == [ c \in WALLET_COLUMNS |-> wallet[c] ]

appendWalletDropsRows(sheet, wallet) == << addRow(wallet) >>
appendWallet(sheet, wallet) == Append(sheet, addRow(wallet))

\* loadWallets: one WalletData per data row, in sheet order.  The k-th data
\* row is sheet row k+1, so the id fallback rowNumber - 1 is k.
loadWallets(sheet) ==
  [ k \in 1..Len(sheet) |->
      [ id            |-> IF sheet[k].id # 0 THEN sheet[k].id ELSE k,
        walletName    |-> sheet[k].walletName,
        walletAddress |-> sheet[k].walletAddress,
        pin           |-> sheet[k].pin,
        createdAt     |-> sheet[k].createdAt,
        status        |-> IF sheet[k].status # "" THEN sheet[k].status ELSE "failed" ] ]

(***************************************************************************)
(* runCreate: the resume point and the end of the range.                   *)
(***************************************************************************)
resumeIndexIgnoringLedger(existingWallets, cfg) == cfg.startIndex
resumeIndexCountingCreated(existingWallets, cfg) ==
  Cardinality({ k \in 1..Len(existingWallets) :
                  existingWallets[k].status = "created" }) + cfg.startIndex
resumeIndex(existingWallets, cfg) == Len(existingWallets) + cfg.startIndex

endIndexIgnoringStart(cfg) == cfg.walletCount
endIndex(cfg) == cfg.startIndex + cfg.walletCount

(***************************************************************************)
(* withRetry: after a failed attempt, is the loop left (break)?            *)
(***************************************************************************)
attemptsExhaustedEarly(att, maxRetries) == att >= maxRetries
attemptsExhausted(att, maxRetries) == att > maxRetries

(***************************************************************************)
(* WalletCreator.createWallet(index): every way one invocation can end.    *)
(* wallet-creator.ts catches every error and returns a failed record;      *)
(* the later version (appium-driver.ts:881) dumps the screen and re-throws.*)
(***************************************************************************)
CreatorVersions == { "returns-failed", "re-throws" }

NoWallet == [ status |-> "none" ]

createWallet(version, index) ==
  { [ kind |-> "return", wallet |-> WalletCreated(index, n, a, t) ] :
      n \in readWalletName, a \in readWalletAddress, t \in Timestamps }
  \cup
  IF version = "returns-failed"
    THEN { [ kind |-> "return", wallet |-> WalletFailed(index, m, t) ] :
             m \in CreateErrors, t \in Timestamps }
    ELSE { [ kind |-> "throw", error |-> m ] : m \in CreateErrors }

(***************************************************************************)
(* AppiumDriver: this.driver is null or a session, this.appiumProcess is   *)
(* null or the Appium server the driver spawned.                           *)
(***************************************************************************)
NoDriver == [ driver |-> "null", appiumProcess |-> "null" ]

\* cleanup() without its try blocks: a failing step escapes and the
\* assignments after it are not reached.
cleanupUnguarded(d, deleteFails, killFails) ==
  LET hasSession == d.driver # "null"
      escaped1   == hasSession /\ deleteFails
      d1         == IF hasSession /\ ~escaped1 THEN [ d EXCEPT !.driver = "null" ] ELSE d
      hasServer  == ~escaped1 /\ d1.appiumProcess # "null"
      escaped2   == hasServer /\ killFails
      d2         == IF hasServer /\ ~escaped2
                      THEN [ d1 EXCEPT !.appiumProcess = "null" ] ELSE d1
  IN [ driver  |-> d2,
       effects |-> (IF hasSession THEN << "deleteSession" >> ELSE << >>)
                   \o (IF hasServer THEN << "kill" >> ELSE << >>),
       warnings |-> << >>,
       raised  |-> escaped1 \/ escaped2 ]

\* AppiumDriver.cleanup(): what it leaves of the driver, the calls it made
\* (deleteSession, kill of the server process), the warnings it logged and
\* whether an error left it.  Both calls sit in a try block whose catch
\* only logs; the fields are set to null after the try block.
cleanupDriver(d, deleteFails, killFails) ==
  LET hasSession == d.driver # "null"
      d1         == IF hasSession THEN [ d EXCEPT !.driver = "null" ] ELSE d
      hasServer  == d1.appiumProcess # "null"
      d2         == IF hasServer THEN [ d1 EXCEPT !.appiumProcess = "null" ] ELSE d1
  IN [ driver  |-> d2,
       effects |-> (IF hasSession THEN << "deleteSession" >> ELSE << >>)
                   \o (IF hasServer THEN << "kill" >> ELSE << >>),
       warnings |-> (IF hasSession /\ deleteFails
                       THEN << "Error during Appium cleanup" >> ELSE << >>)
                    \o (IF hasServer /\ killFails
                          THEN << "Error stopping Appium server" >> ELSE << >>),
       raised  |-> FALSE ]

\* The two operations captureDebugInfo starts together under Promise.all.
captureDebugInfo == { "takeScreenshot", "getPageSource" }

(***************************************************************************)
(* The process: main() dispatches on the command; a run ends by returning  *)
(* (exit code 0), by a rejection reaching main's catch (exit code 1) or by *)
(* being killed.                                                           *)
(***************************************************************************)
Configs ==
  [ startIndex : 0..MaxStartIndex, walletCount : 0..MaxWalletCount,
    maxRetries : 0..MaxRetriesCfg ]

InitProcess ==
  /\ pc = "idle"
  /\ pendingErr = FALSE
  /\ exitCode = "none"
  /\ attempt = 0
  /\ processed = << >>
  /\ aborted = "no"
  /\ writeFailed = FALSE
  /\ driver = NoDriver
  /\ inFlight = { }
  /\ sessionOpened = FALSE
  /\ cleanedUp = FALSE

InitCreate ==
  /\ creator \in CreatorVersions
  /\ wallets = << >>
  /\ i = 0
  /\ startIdx = 0
  /\ endIdx = 0
  /\ walletData = NoWallet
  /\ walletsAtStart = << >>

\* runCreate up to the try block: initializeExcel, loadWallets, the range,
\* and the early return when nothing is left to do.
runCreate_load ==
  /\ command = "create"
  /\ pc = "idle"
  /\ LET existingWallets == loadWallets(wallets)
         s == resumeIndex(existingWallets, config)
         e == endIndex(config)
     IN IF s >= e
          THEN /\ pc' = "ended"
               /\ exitCode' = "0"
               /\ UNCHANGED << startIdx, endIdx, i >>
          ELSE /\ pc' = "c_init"
               /\ startIdx' = s
               /\ endIdx' = e
               /\ i' = s
               /\ UNCHANGED exitCode
  /\ walletsAtStart' = wallets
  /\ processed' = << >>
  /\ UNCHANGED claimVars
  /\ UNCHANGED << command, pendingErr, config, creator, wallets, attempt,
                  walletData, aborted, writeFailed >>
  /\ UNCHANGED retryVars
  /\ UNCHANGED sessionVars
  /\ UNCHANGED workflowVars
  /\ UNCHANGED unitVars

\* withRetry(() => appiumDriver.initialize(), {maxRetries: 2}): the session
\* opens, or the last rejection leaves the try block.
runCreate_initialize ==
  /\ pc = "c_init"
  /\ \E opened \in BOOLEAN :
       IF opened
         THEN /\ pc' = "c_unit"
              /\ driver' = [ driver |-> "session", appiumProcess |-> "running" ]
              /\ sessionOpened' = TRUE
              /\ UNCHANGED << pendingErr, aborted >>
         ELSE /\ pc' = "cleanup"
              /\ pendingErr' = TRUE
              /\ aborted' = "session"
              /\ \E server \in { "null", "running" } :
                   driver' = [ driver |-> "null", appiumProcess |-> server ]
              /\ UNCHANGED sessionOpened
  /\ UNCHANGED claimVars
  /\ UNCHANGED << command, exitCode, config, creator, wallets, i, startIdx,
                  endIdx, attempt, walletData, processed, walletsAtStart,
                  writeFailed >>
  /\ UNCHANGED retryVars
  /\ UNCHANGED << inFlight, cleanedUp >>
  /\ UNCHANGED workflowVars
  /\ UNCHANGED unitVars

\* Top of the loop body: resetApp(), launch().  launch() awaits
\* driver.launchApp, which is outside every try block of the loop.
runCreate_launch ==
  /\ pc = "c_unit"
  /\ processed' = Append(processed, i)
  /\ \E launched \in BOOLEAN :
       IF launched
         THEN pc' = "c_attempt" /\ attempt' = 1
              /\ UNCHANGED << pendingErr, aborted >>
         ELSE pc' = "cleanup" /\ pendingErr' = TRUE /\ aborted' = "launch"
              /\ UNCHANGED attempt
  /\ UNCHANGED claimVars
  /\ UNCHANGED << command, exitCode, config, creator, wallets, i, startIdx,
                  endIdx, walletData, walletsAtStart, writeFailed >>
  /\ UNCHANGED retryVars
  /\ UNCHANGED sessionVars
  /\ UNCHANGED workflowVars
  /\ UNCHANGED unitVars

\* One attempt of withRetry(() => walletCreator.createWallet(i), ...).
runCreate_attempt ==
  /\ pc = "c_attempt"
  /\ \E r \in createWallet(creator, i) :
       IF r.kind = "return"
         THEN /\ walletData' = r.wallet
              /\ pc' = "c_append"
              /\ UNCHANGED << pendingErr, aborted >>
         ELSE IF attemptsExhausted(attempt, config.maxRetries)
           THEN /\ pc' = "cleanup"
                /\ pendingErr' = TRUE
                /\ aborted' = "workflow"
                /\ UNCHANGED walletData
           ELSE /\ pc' = "c_backoff"
                /\ UNCHANGED << pendingErr, aborted, walletData >>
  /\ UNCHANGED claimVars
  /\ UNCHANGED << command, exitCode, config, creator, wallets, i, startIdx,
                  endIdx, attempt, processed, walletsAtStart, writeFailed >>
  /\ UNCHANGED retryVars
  /\ UNCHANGED sessionVars
  /\ UNCHANGED workflowVars
  /\ UNCHANGED unitVars

\* withRetry: onRetry has been called, the backoff delay elapses, attempt++.
runCreate_backoff ==
  /\ pc = "c_backoff"
  /\ attempt' = attempt + 1
  /\ pc' = "c_attempt"
  /\ UNCHANGED claimVars
  /\ UNCHANGED << command, pendingErr, exitCode, config, creator, wallets, i,
                  startIdx, endIdx, walletData, processed, walletsAtStart,
                  aborted, writeFailed >>
  /\ UNCHANGED retryVars
  /\ UNCHANGED sessionVars
  /\ UNCHANGED workflowVars
  /\ UNCHANGED unitVars

\* await store.appendWallet(walletData), the inter-wallet delay and i++.
runCreate_appendWallet ==
  /\ pc = "c_append"
  /\ \E stored \in BOOLEAN :
       IF stored
         THEN /\ wallets' = appendWallet(wallets, walletData)
              /\ i' = i + 1
              /\ pc' = IF i + 1 < endIdx THEN "c_unit" ELSE "c_report"
              /\ UNCHANGED << pendingErr, aborted, writeFailed >>
         ELSE /\ pc' = "cleanup"
              /\ pendingErr' = TRUE
              /\ aborted' = "ledger"
              /\ writeFailed' = TRUE
              /\ UNCHANGED << wallets, i >>
  /\ walletData' = NoWallet
  /\ UNCHANGED claimVars
  /\ UNCHANGED << command, exitCode, config, creator, startIdx, endIdx,
                  attempt, processed, walletsAtStart >>
  /\ UNCHANGED retryVars
  /\ UNCHANGED sessionVars
  /\ UNCHANGED workflowVars
  /\ UNCHANGED unitVars

\* await store.exportReport() after the loop.
runCreate_exportReport ==
  /\ pc = "c_report"
  /\ pc' = "cleanup"
  /\ UNCHANGED claimVars
  /\ UNCHANGED << command, pendingErr, exitCode, config, creator, wallets, i,
                  startIdx, endIdx, attempt, walletData, processed,
                  walletsAtStart, aborted, writeFailed >>
  /\ UNCHANGED retryVars
  /\ UNCHANGED sessionVars
  /\ UNCHANGED workflowVars
  /\ UNCHANGED unitVars

(***************************************************************************)
(* The Accounts sheet and AccountManager.                                  *)
(***************************************************************************)
ClaimStatuses == { "pending", "claimed", "failed", "skipped" }

NoAccount == [ id |-> 0, claimStatus |-> "none", errorMessage |-> "" ]

\* WalletStore.loadAccounts: every data row of the Accounts sheet, in order.
loadAccounts(sheet) == sheet

\* WalletStore.updateAccountStatus(id, status, errorMsg): the one row with
\* that id gets the status and the message (an absent message leaves the
\* Error cell empty); every other row is left as it is.
updateAccountStatus(sheet, id, status, msg) ==
  [ k \in 1..Len(sheet) |->
      IF sheet[k].id = id /\ \A j \in 1..(k - 1) : sheet[j].id # id
        THEN [ sheet[k] EXCEPT !.claimStatus = status,
                               !.errorMessage = IF msg = Undefined THEN "" ELSE msg ]
        ELSE sheet[k] ]

\* allAccounts.filter((a) => a.claimStatus === "pending")
RECURSIVE filterByStatus(_, _)
filterByStatus(list, keep) ==
  IF list = << >> THEN << >>
  ELSE IF Head(list).claimStatus \in keep
    THEN << Head(list) >> \o filterByStatus(Tail(list), keep)
    ELSE filterByStatus(Tail(list), keep)

loadPendingAccountsNotClaimed(sheet) ==
  filterByStatus(loadAccounts(sheet), ClaimStatuses \ { "claimed" })
loadPendingAccounts(sheet) == filterByStatus(loadAccounts(sheet), { "pending" })

\* AccountManager.getNextAccount: the account it returns (NoAccount for
\* null) and the index it leaves.
getNextAccount(list, index) ==
  IF index >= Len(list)
    THEN [ account |-> NoAccount, currentIndex |-> index ]
    ELSE [ account |-> list[index + 1], currentIndex |-> index + 1 ]

(***************************************************************************)
(* MiniAppClaimer.performClaim(): every result object it can return.  It   *)
(* never raises: its catch block turns any error into a result.            *)
(***************************************************************************)
DeviceErrors == { "device error" }

NoResult == [ success |-> FALSE, state |-> "none", error |-> Undefined ]

performClaim ==
  { [ success |-> FALSE, state |-> "loading",
      error |-> "MiniApp failed to load within timeout" ],
    [ success |-> TRUE, state |-> "already_claimed", error |-> Undefined ],
    [ success |-> FALSE, state |-> "error",
      error |-> "Failed to click claim button" ],
    [ success |-> FALSE, state |-> "signup",
      error |-> "Signup form detected, cannot auto-claim" ],
    [ success |-> FALSE, state |-> "error", error |-> "MiniApp is in error state" ],
    [ success |-> FALSE, state |-> "unknown",
      error |-> "Unknown miniapp state: unknown" ],
    [ success |-> FALSE, state |-> "unknown",
      error |-> "Unknown miniapp state: loading" ] }
  \cup
  { [ success |-> verified,
      state |-> IF verified THEN "already_claimed" ELSE "unknown",
      error |-> Undefined ] : verified \in BOOLEAN }
  \cup
  { [ success |-> FALSE, state |-> "error", error |-> m ] : m \in DeviceErrors }

\* runClaim, "Update status": the status and message written for a result.
statusUpdateFor(result) ==
  IF result.success THEN [ status |-> "claimed", msg |-> Undefined ]
  ELSE IF result.state = "already_claimed"
    THEN [ status |-> "claimed", msg |-> Undefined ]
    ELSE [ status |-> "failed", msg |-> result.error ]

InitialAccountStatuses == { "pending", "failed" }

\* The Accounts sheets the operator may have prepared: ids 1..NumAccounts,
\* a failed row carrying the message of its earlier failure.
AccountSheets ==
  { [ k \in 1..NumAccounts |->
        [ id |-> k, claimStatus |-> st[k],
          errorMessage |-> IF st[k] = "failed" THEN "earlier error" ELSE "" ] ] :
    st \in [ 1..NumAccounts -> InitialAccountStatuses ] }

InitClaim ==
  /\ accountsAtInit = accounts
  /\ pendingAccounts = << >>
  /\ currentIndex = 0
  /\ account = NoAccount
  /\ isFirstAccount = TRUE
  /\ claimResult = NoResult
  /\ errorMsg = Undefined
  /\ written = { }

\* runClaim up to the try block: initializeExcel, loadPendingAccounts and
\* the early return when no account is pending.
runClaim_load ==
  /\ command = "claim"
  /\ pc = "idle"
  /\ LET pending == loadPendingAccounts(accounts)
     IN IF Len(pending) = 0
          THEN /\ pc' = "ended"
               /\ exitCode' = "0"
               /\ UNCHANGED << pendingAccounts, currentIndex >>
          ELSE /\ pc' = "k_init"
               /\ pendingAccounts' = pending
               /\ currentIndex' = 0
               /\ UNCHANGED exitCode
  /\ processed' = << >>
  /\ UNCHANGED createVars
  /\ UNCHANGED << command, pendingErr, config, attempt, aborted, writeFailed,
                  accounts, account, isFirstAccount, claimResult, errorMsg,
                  accountsAtInit, written >>
  /\ UNCHANGED retryVars
  /\ UNCHANGED sessionVars
  /\ UNCHANGED workflowVars
  /\ UNCHANGED unitVars

\* withRetry(() => appiumDriver.initialize(), {maxRetries: 2}), then
\* let isFirstAccount = true; let account = await manager.getNextAccount().
runClaim_initialize ==
  /\ pc = "k_init"
  /\ \E opened \in BOOLEAN :
       IF opened
         THEN LET next == getNextAccount(pendingAccounts, currentIndex)
              IN /\ account' = next.account
                 /\ currentIndex' = next.currentIndex
                 /\ isFirstAccount' = TRUE
                 /\ pc' = IF next.account = NoAccount THEN "k_report" ELSE "k_prepare"
                 /\ driver' = [ driver |-> "session", appiumProcess |-> "null" ]
                 /\ sessionOpened' = TRUE
                 /\ UNCHANGED << pendingErr, aborted >>
         ELSE /\ pc' = "cleanup"
              /\ pendingErr' = TRUE
              /\ aborted' = "session"
              /\ UNCHANGED << account, currentIndex, isFirstAccount, driver,
                              sessionOpened >>
  /\ UNCHANGED createVars
  /\ UNCHANGED << command, exitCode, config, attempt, processed, writeFailed,
                  accounts, pendingAccounts, claimResult, errorMsg,
                  accountsAtInit, written >>
  /\ UNCHANGED retryVars
  /\ UNCHANGED << inFlight, cleanedUp >>
  /\ UNCHANGED workflowVars
  /\ UNCHANGED unitVars

\* Top of the loop body, inside try: logout() unless first, launch().
runClaim_launch ==
  /\ pc = "k_prepare"
  /\ processed' = Append(processed, account.id)
  /\ isFirstAccount' = FALSE
  /\ \E launched \in BOOLEAN :
       IF launched
         THEN pc' = "k_login" /\ attempt' = 1 /\ UNCHANGED errorMsg
         ELSE \E m \in DeviceErrors :
                pc' = "k_catch" /\ errorMsg' = m /\ UNCHANGED attempt
  /\ UNCHANGED createVars
  /\ UNCHANGED << command, pendingErr, exitCode, config, aborted, writeFailed,
                  accounts, pendingAccounts, currentIndex, account,
                  claimResult, accountsAtInit, written >>
  /\ UNCHANGED retryVars
  /\ UNCHANGED sessionVars
  /\ UNCHANGED workflowVars
  /\ UNCHANGED unitVars

\* One attempt of the login withRetry: login() returns true, or returns
\* false and the wrapper throws Error("Login failed").
runClaim_login ==
  /\ pc = "k_login"
  /\ \E success \in BOOLEAN :
       IF success
         THEN pc' = "k_open" /\ UNCHANGED << attempt, errorMsg >>
         ELSE IF attemptsExhausted(attempt, config.maxRetries)
           THEN pc' = "k_catch" /\ errorMsg' = "Login failed" /\ UNCHANGED attempt
           ELSE pc' = "k_login" /\ attempt' = attempt + 1 /\ UNCHANGED errorMsg
  /\ UNCHANGED createVars
  /\ UNCHANGED << command, pendingErr, exitCode, config, processed, aborted,
                  writeFailed, accounts, pendingAccounts, currentIndex,
                  account, isFirstAccount, claimResult, accountsAtInit,
                  written >>
  /\ UNCHANGED retryVars
  /\ UNCHANGED sessionVars
  /\ UNCHANGED workflowVars
  /\ UNCHANGED unitVars

\* getWalletAddress(), openMiniAppLink(claimLink) and the claim withRetry:
\* openDeeplink may raise; performClaim always returns a result.
runClaim_performClaim ==
  /\ pc = "k_open"
  /\ \/ \E m \in DeviceErrors :
          /\ pc' = "k_catch"
          /\ errorMsg' = m
          /\ UNCHANGED claimResult
     \/ \E r \in performClaim :
          /\ pc' = "k_update"
          /\ claimResult' = r
          /\ UNCHANGED errorMsg
  /\ attempt' = 1
  /\ UNCHANGED createVars
  /\ UNCHANGED << command, pendingErr, exitCode, config, processed,
                  aborted, writeFailed, accounts, pendingAccounts,
                  currentIndex, account, isFirstAccount, accountsAtInit,
                  written >>
  /\ UNCHANGED retryVars
  /\ UNCHANGED sessionVars
  /\ UNCHANGED workflowVars
  /\ UNCHANGED unitVars

\* "Update status": await manager.updateStatus(...) inside the try block.
\* A rejection of the write is caught by the catch block of the same try.
runClaim_updateStatus ==
  /\ pc = "k_update"
  /\ LET u == statusUpdateFor(claimResult)
     IN \E stored \in BOOLEAN :
          IF stored
            THEN /\ accounts' = updateAccountStatus(accounts, account.id, u.status, u.msg)
                 /\ written' = written \cup { account.id }
                 /\ pc' = "k_home"
                 /\ UNCHANGED << errorMsg, writeFailed >>
            ELSE /\ pc' = "k_catch"
                 /\ errorMsg' = "ledger write failed"
                 /\ writeFailed' = TRUE
                 /\ UNCHANGED << accounts, written >>
  /\ claimResult' = NoResult
  /\ UNCHANGED createVars
  /\ UNCHANGED << command, pendingErr, exitCode, config, attempt, processed,
                  aborted, pendingAccounts, currentIndex, account,
                  isFirstAccount, accountsAtInit >>
  /\ UNCHANGED retryVars
  /\ UNCHANGED sessionVars
  /\ UNCHANGED workflowVars
  /\ UNCHANGED unitVars

\* catch (err): await manager.updateStatus(account.id, "failed", errorMsg),
\* then captureDebugInfo inside its own try/catch: Promise.all starts the
\* screenshot and the page-source dump together.
runClaim_catch ==
  /\ pc = "k_catch"
  /\ \E stored \in BOOLEAN :
       IF stored
         THEN /\ accounts' = updateAccountStatus(accounts, account.id, "failed", errorMsg)
              /\ written' = written \cup { account.id }
              /\ pc' = "k_capture"
              /\ inFlight' = captureDebugInfo
              /\ UNCHANGED << pendingErr, aborted, writeFailed >>
         ELSE /\ pc' = "cleanup"
              /\ pendingErr' = TRUE
              /\ aborted' = "ledger"
              /\ writeFailed' = TRUE
              /\ UNCHANGED << accounts, written, inFlight >>
  /\ errorMsg' = Undefined
  /\ UNCHANGED createVars
  /\ UNCHANGED << command, exitCode, config, attempt, processed,
                  pendingAccounts, currentIndex, account, isFirstAccount,
                  claimResult, accountsAtInit >>
  /\ UNCHANGED retryVars
  /\ UNCHANGED << driver, sessionOpened, cleanedUp >>
  /\ UNCHANGED workflowVars
  /\ UNCHANGED unitVars

\* One of the two operations of captureDebugInfo settles (each swallows its
\* own error); when both have, Promise.all resolves and the catch block ends.
captureDebugInfo_settle ==
  /\ pc = "k_capture"
  /\ \E op \in inFlight :
       /\ inFlight' = inFlight \ { op }
       /\ pc' = IF inFlight' = { } THEN "k_home" ELSE "k_capture"
  /\ UNCHANGED createVars
  /\ UNCHANGED claimVars
  /\ UNCHANGED << command, pendingErr, exitCode, config, attempt, processed,
                  aborted, writeFailed >>
  /\ UNCHANGED retryVars
  /\ UNCHANGED << driver, sessionOpened, cleanedUp >>
  /\ UNCHANGED workflowVars
  /\ UNCHANGED unitVars

\* goHome() inside try/catch, then account = await manager.getNextAccount().
runClaim_getNextAccount ==
  /\ pc = "k_home"
  /\ LET next == getNextAccount(pendingAccounts, currentIndex)
     IN /\ account' = next.account
        /\ currentIndex' = next.currentIndex
        /\ pc' = IF next.account = NoAccount THEN "k_report" ELSE "k_prepare"
  /\ UNCHANGED createVars
  /\ UNCHANGED << command, pendingErr, exitCode, config, attempt, processed,
                  aborted, writeFailed, accounts, pendingAccounts,
                  isFirstAccount, claimResult, errorMsg, accountsAtInit,
                  written >>
  /\ UNCHANGED retryVars
  /\ UNCHANGED sessionVars
  /\ UNCHANGED workflowVars
  /\ UNCHANGED unitVars

\* await manager.exportReport() after the loop.
runClaim_exportReport ==
  /\ pc = "k_report"
  /\ pc' = "cleanup"
  /\ UNCHANGED createVars
  /\ UNCHANGED claimVars
  /\ UNCHANGED << command, pendingErr, exitCode, config, attempt, processed,
                  aborted, writeFailed >>
  /\ UNCHANGED retryVars
  /\ UNCHANGED sessionVars
  /\ UNCHANGED workflowVars
  /\ UNCHANGED unitVars

\* When the process ends, everything it held in memory is gone; only the
\* workbook on disk (and the history recorded here) remains.
memoryLost ==
  /\ pendingErr' = FALSE
  /\ i' = 0
  /\ startIdx' = 0
  /\ endIdx' = 0
  /\ attempt' = 0
  /\ walletData' = NoWallet
  /\ pendingAccounts' = << >>
  /\ currentIndex' = 0
  /\ account' = NoAccount
  /\ isFirstAccount' = TRUE
  /\ claimResult' = NoResult
  /\ errorMsg' = Undefined

\* finally { await appiumDriver.cleanup() }, then main: a rejection reaches
\* main's catch, which calls process.exit(1).
cleanup ==
  /\ pc = "cleanup"
  /\ pc' = "ended"
  /\ \E deleteFails, killFails \in BOOLEAN :
       LET r == cleanupDriver(driver, deleteFails, killFails)
       IN /\ driver' = r.driver
          /\ exitCode' = IF pendingErr \/ r.raised THEN "1" ELSE "0"
  /\ cleanedUp' = TRUE
  /\ memoryLost
  /\ UNCHANGED << command, config, creator, wallets, walletsAtStart, processed,
                  aborted, writeFailed, accounts, accountsAtInit, written >>
  /\ UNCHANGED retryVars
  /\ UNCHANGED << inFlight, sessionOpened >>
  /\ UNCHANGED workflowVars
  /\ UNCHANGED unitVars

\* The process is killed at an await.
Kill ==
  /\ pc \notin { "idle", "ended" }
  /\ pc' = "ended"
  /\ exitCode' = "killed"
  /\ memoryLost
  /\ driver' = NoDriver
  /\ inFlight' = { }
  /\ UNCHANGED << command, config, creator, wallets, walletsAtStart, processed,
                  aborted, writeFailed, accounts, accountsAtInit, written >>
  /\ UNCHANGED retryVars
  /\ UNCHANGED << sessionOpened, cleanedUp >>
  /\ UNCHANGED workflowVars
  /\ UNCHANGED unitVars

\* The operator runs the same command again; WALLET_COUNT may have changed,
\* START_INDEX has not.
Restart ==
  /\ pc = "ended"
  /\ pc' = "idle"
  /\ exitCode' = "none"
  /\ IF command = "create"
       THEN \E n \in 0..MaxWalletCount :
              config' = [ config EXCEPT !.walletCount = n ]
       ELSE config' = config
  /\ processed' = << >>
  /\ walletsAtStart' = << >>
  /\ aborted' = "no"
  /\ writeFailed' = FALSE
  /\ UNCHANGED << command, pendingErr, creator, wallets, i, startIdx, endIdx,
                  attempt, walletData, accounts, pendingAccounts,
                  currentIndex, account, isFirstAccount, claimResult,
                  errorMsg, accountsAtInit, written >>
  /\ sessionOpened' = FALSE
  /\ cleanedUp' = FALSE
  /\ UNCHANGED << driver, inFlight >>
  /\ UNCHANGED retryVars
  /\ UNCHANGED workflowVars
  /\ UNCHANGED unitVars

(***************************************************************************)
(* withRetry(fn, options) on its own.  A raised value is an Error object   *)
(* (told apart by its reference) or a value that is no Error: a string,    *)
(* or undefined.                                                           *)
(***************************************************************************)
RaisedValues ==
  { [ type |-> "Error", ref |-> r, message |-> "boom" ] : r \in 1..(MaxRetriesOpt + 1) }
  \cup { [ type |-> "string", text |-> "oops" ], [ type |-> "undefined" ] }

SuccessValue == [ type |-> "value", ref |-> "result" ]

NoError == [ type |-> "undefined" ]

\* String(err)
String(v) == IF v.type = "string" THEN v.text ELSE "undefined"

\* err instanceof Error ? err : new Error(String(err))
normalise(err) ==
  IF err.type = "Error" THEN err
  ELSE [ type |-> "Error", ref |-> "new", message |-> String(err) ]

\* for (...; attempt <= maxRetries + 1; ...)
loopContinues(att, maxRetries) == att <= maxRetries + 1

RECURSIVE pow(_, _)
pow(b, e) == IF e = 0 THEN 1 ELSE b * pow(b, e - 1)

\* const { ..., backoffMultiplier = 2, ... } = options
backoffMultiplier(opts) ==
  IF "backoffMultiplier" \in DOMAIN opts THEN opts.backoffMultiplier ELSE 2

\* A delay growing by delayMs with every attempt.
waitTimeLinear(opts, att) == opts.delayMs * att

\* delayMs * Math.pow(backoffMultiplier, attempt - 1)
waitTime(opts, att) == opts.delayMs * pow(backoffMultiplier(opts), att - 1)

\* onRetry(attempt, lastError)
onRetryZeroBased(att, err) == << att - 1, err >>
onRetryArguments(att, err) == << att, err >>

RetryOptions ==
  [ maxRetries : -1..MaxRetriesOpt, delayMs : { 3000 },
    backoffMultiplier : { 2, 3 }, onRetry : BOOLEAN ]
  \cup [ maxRetries : -1..MaxRetriesOpt, delayMs : { 3000 }, onRetry : BOOLEAN ]

\* fn fails `failures` times and then succeeds, or fails always.
Scripts ==
  { [ always |-> TRUE, failures |-> 0 ] }
  \cup { [ always |-> FALSE, failures |-> k ] : k \in 0..MaxFailures }

InitWithRetry ==
  /\ rpc = "loop"
  /\ rAttempt = 1
  /\ lastError = NoError
  /\ settled = [ state |-> "pending" ]
  /\ fnCalls = << >>
  /\ fnInvocations = 0
  /\ onRetryCalls = << >>
  /\ waits = << >>
  /\ recovery = "none"
  /\ invokedDuringRecovery = FALSE

\* What a call of onRetry leaves behind when it returns: nothing pending
\* for a plain function (the logging callbacks of runClaim); for an async
\* function (runCreate: resetApp, delay, launch, delay) a promise that is
\* still pending, which withRetry drops.
onRetryKinds == { "sync", "async" }

startRecovery(kind) == IF kind = "async" THEN "running" ELSE "done"

\* One pass through the loop body: return await fn(), or the catch block.
withRetry_attempt ==
  /\ rpc = "loop"
  /\ loopContinues(rAttempt, options.maxRetries)
  /\ fnInvocations' = fnInvocations + 1
  /\ invokedDuringRecovery' = (invokedDuringRecovery \/ recovery = "running")
  /\ IF ~script.always /\ fnInvocations >= script.failures
       THEN /\ settled' = [ state |-> "fulfilled", value |-> SuccessValue ]
            /\ rpc' = "settled"
            /\ UNCHANGED << lastError, fnCalls, onRetryCalls, waits, recovery >>
       ELSE \E err \in RaisedValues :
              /\ err.type = "Error" => err.ref = fnInvocations + 1
              /\ fnCalls' = Append(fnCalls, err)
              /\ lastError' = normalise(err)
              /\ IF attemptsExhausted(rAttempt, options.maxRetries)
                   THEN /\ rpc' = "throw"
                        /\ UNCHANGED << onRetryCalls, waits, recovery >>
                   ELSE /\ waits' = Append(waits, waitTime(options, rAttempt))
                        /\ onRetryCalls' =
                             IF options.onRetry
                               THEN Append(onRetryCalls,
                                           onRetryArguments(rAttempt, lastError'))
                               ELSE onRetryCalls
                        /\ IF options.onRetry
                             THEN \E kind \in onRetryKinds :
                                    recovery' = startRecovery(kind)
                             ELSE UNCHANGED recovery
                        /\ rpc' = "sleep"
              /\ UNCHANGED settled
  /\ UNCHANGED << options, script, rAttempt >>
  /\ UNCHANGED processVars
  /\ UNCHANGED createVars
  /\ UNCHANGED claimVars
  /\ UNCHANGED sessionVars
  /\ UNCHANGED workflowVars
  /\ UNCHANGED unitVars

\* The timer of the backoff delay fires; attempt++.
withRetry_wake ==
  /\ rpc = "sleep"
  /\ rAttempt' = rAttempt + 1
  /\ rpc' = "loop"
  /\ UNCHANGED << options, script, lastError, settled, fnCalls,
                  fnInvocations, onRetryCalls, waits, recovery,
                  invokedDuringRecovery >>
  /\ UNCHANGED processVars
  /\ UNCHANGED createVars
  /\ UNCHANGED claimVars
  /\ UNCHANGED sessionVars
  /\ UNCHANGED workflowVars
  /\ UNCHANGED unitVars

\* throw lastError, after the break or when the loop condition fails.
withRetry_throw ==
  /\ \/ rpc = "throw"
     \/ rpc = "loop" /\ ~loopContinues(rAttempt, options.maxRetries)
  /\ settled' = [ state |-> "rejected", value |-> lastError ]
  /\ rpc' = "settled"
  /\ UNCHANGED << options, script, rAttempt, lastError, fnCalls,
                  fnInvocations, onRetryCalls, waits, recovery,
                  invokedDuringRecovery >>
  /\ UNCHANGED processVars
  /\ UNCHANGED createVars
  /\ UNCHANGED claimVars
  /\ UNCHANGED sessionVars
  /\ UNCHANGED workflowVars
  /\ UNCHANGED unitVars

\* The promise of an async onRetry settles: the recovery has run to its end.
\* Nothing in withRetry waits for this.
onRetry_settle ==
  /\ recovery = "running"
  /\ recovery' = "done"
  /\ UNCHANGED << options, script, rpc, rAttempt, lastError, settled, fnCalls,
                  fnInvocations, onRetryCalls, waits, invokedDuringRecovery >>
  /\ UNCHANGED processVars
  /\ UNCHANGED createVars
  /\ UNCHANGED claimVars
  /\ UNCHANGED sessionVars
  /\ UNCHANGED workflowVars
  /\ UNCHANGED unitVars

(***************************************************************************)
(* MiniAppClaimer.performClaim step by step.  The embedded surface is what *)
(* the device shows: whether a WEBVIEW_ context exists, which selectors    *)
(* match a displayed element, and for which selectors the lookup raises.   *)
(***************************************************************************)
WEB_SELECTORS ==
  [ claimButton |-> << "button.claim-btn", "button[data-action=claim]",
                       "a[href*=claim]", "button.btn-primary",
                       "button:has-text(Claim)", "button:has-text(Join)",
                       "button:has-text(Start)", "[class*='claim']",
                       "[class*='join']" >>,
    alreadyClaimed |-> << "[class*='claimed']", "[class*='success']",
                          "text*='Already claimed'", "text*='Completed'" >>,
    loading |-> << "[class*='loading']", "[class*='spinner']", ".loader" >>,
    error |-> << "[class*='error']", "[class*='fail']", ".error-message" >>,
    signup |-> << "form[class*='signup']", "form[class*='register']",
                  "button:has-text(Sign Up)", "button:has-text(Register)" >> ]

\* The selectors that can match or raise in the screens explored: one of
\* each list, none of them the first of its list.
SampleSelectors ==
  { ".loader", "text*='Completed'", ".error-message", "form[class*='register']",
    "button.btn-primary" }

\* The lookups that raise: none, those of one selector, or all of them.
RaisingSets == { { } } \cup { { x } : x \in SampleSelectors } \cup { SampleSelectors }

Screens ==
  [ webview : BOOLEAN, displayed : SUBSET SampleSelectors, raising : RaisingSets ]

\* findElement("css selector", selector) and el.isDisplayed() inside try.
checkSelector(scr, selector) ==
  IF selector \in scr.raising THEN "raises"
  ELSE IF selector \in scr.displayed THEN "displayed" ELSE "hidden"

\* for (const selector of selectors) { try { ... if (displayed) return }
\* catch { continue } }
RECURSIVE anyDisplayed(_, _)
anyDisplayed(selectors, scr) ==
  IF selectors = << >> THEN FALSE
  ELSE IF checkSelector(scr, Head(selectors)) = "displayed" THEN TRUE
  ELSE anyDisplayed(Tail(selectors), scr)

\* The battery in the order of detectNativeState: claim before signup and
\* error.
detectWebViewStateNativeOrder(scr) ==
  IF anyDisplayed(WEB_SELECTORS.loading, scr) THEN "loading"
  ELSE IF anyDisplayed(WEB_SELECTORS.alreadyClaimed, scr) THEN "already_claimed"
  ELSE IF anyDisplayed(WEB_SELECTORS.claimButton, scr) THEN "claim_available"
  ELSE IF anyDisplayed(WEB_SELECTORS.signup, scr) THEN "signup"
  ELSE IF anyDisplayed(WEB_SELECTORS.error, scr) THEN "error"
  ELSE "unknown"

detectWebViewState(scr) ==
  IF anyDisplayed(WEB_SELECTORS.loading, scr) THEN "loading"
  ELSE IF anyDisplayed(WEB_SELECTORS.alreadyClaimed, scr) THEN "already_claimed"
  ELSE IF anyDisplayed(WEB_SELECTORS.error, scr) THEN "error"
  ELSE IF anyDisplayed(WEB_SELECTORS.signup, scr) THEN "signup"
  ELSE IF anyDisplayed(WEB_SELECTORS.claimButton, scr) THEN "claim_available"
  ELSE "unknown"

\* The native page source, lower-cased, as the set of the phrases it holds;
\* NoSource when getPageSource raises.
Phrases == { "loading", "already claimed", "claim", "sign up", "error" }

NoSource == { "getPageSource raised" }

PageSources == (SUBSET Phrases) \cup { NoSource }

\* sourceLower.includes(needle)
includes(source, needle) ==
  \E phrase \in source :
    \/ phrase = needle
    \/ phrase = "already claimed" /\ needle \in { "claim", "claimed" }

\* detectNativeState looking for the claim phrases before the completion
\* phrases.
detectNativeStateClaimFirst(source) ==
  IF source = NoSource THEN "unknown"
  ELSE IF includes(source, "loading") \/ includes(source, "spinner") THEN "loading"
  ELSE IF includes(source, "claim") \/ includes(source, "join") THEN "claim_available"
  ELSE IF includes(source, "already claimed") \/ includes(source, "completed")
    THEN "already_claimed"
  ELSE IF includes(source, "sign up") \/ includes(source, "register") THEN "signup"
  ELSE IF includes(source, "error") \/ includes(source, "failed") THEN "error"
  ELSE "unknown"

detectNativeState(source) ==
  IF source = NoSource THEN "unknown"
  ELSE IF includes(source, "loading") \/ includes(source, "spinner") THEN "loading"
  ELSE IF includes(source, "already claimed") \/ includes(source, "completed")
    THEN "already_claimed"
  ELSE IF includes(source, "claim") \/ includes(source, "join") THEN "claim_available"
  ELSE IF includes(source, "sign up") \/ includes(source, "register") THEN "signup"
  ELSE IF includes(source, "error") \/ includes(source, "failed") THEN "error"
  ELSE "unknown"

\* detectCurrentState() once getContexts has answered: the embedded
\* classification when a WEBVIEW_ context is listed, the native one
\* otherwise.
detectCurrentState(scr, source) ==
  IF scr.webview THEN detectWebViewState(scr) ELSE detectNativeState(source)

\* verifyClaimSuccess once getContexts has answered.
verifyClaimSuccess(scr, source) ==
  \/ scr.webview /\ anyDisplayed(WEB_SELECTORS.alreadyClaimed, scr)
  \/ /\ source # NoSource
     /\ \/ includes(source, "success")
        \/ includes(source, "claimed")
        \/ includes(source, "completed")

\* switch (state) of performClaim sending every state to the claim click.
branchAlwaysClicks(state) == "click"

\* switch (state) of performClaim: which branch a classified state takes.
branch(state) ==
  CASE state = "already_claimed" -> "return"
    [] state = "claim_available" -> "click"
    [] state = "signup"          -> "signup"
    [] state = "error"           -> "error"
    [] OTHER                     -> "default"

\* The failing branches returning no reason.
failureResultNoReason(state) ==
  [ success |-> FALSE, state |-> state, error |-> "" ]

\* The result object of the signup, error and default branches.
failureResult(state) ==
  CASE state = "signup" ->
         [ success |-> FALSE, state |-> "signup",
           error |-> "Signup form detected, cannot auto-claim" ]
    [] state = "error" ->
         [ success |-> FALSE, state |-> "error", error |-> "MiniApp is in error state" ]
    [] state = "loading" ->
         [ success |-> FALSE, state |-> "unknown",
           error |-> "Unknown miniapp state: loading" ]
    [] OTHER ->
         [ success |-> FALSE, state |-> "unknown",
           error |-> "Unknown miniapp state: unknown" ]

\* The result after the click reporting success whatever the re-check saw.
claimResultIgnoringVerification(verified) ==
  [ success |-> TRUE, state |-> "already_claimed", error |-> Undefined ]

\* The result object returned after the click, confirmation and re-check.
claimResultAfterClick(verified) ==
  [ success |-> verified,
    state |-> IF verified THEN "already_claimed" ELSE "unknown",
    error |-> Undefined ]

\* The catch block of performClaim: a screenshot, then a failure result
\* carrying the message of the error.
performClaim_catch(log, msg) ==
  /\ deviceLog' = log \o << "takeDebugScreenshot" >>
  /\ returned' = [ success |-> FALSE, state |-> "error", error |-> msg ]
  /\ step' = "w_done"

otherVars == << processVars, createVars, claimVars, retryVars, sessionVars,
               unitVars >>

\* One poll of waitForMiniAppLoad() sees the miniapp loaded: a WEBVIEW_
\* context is listed and, inside it, the state is not loading.
miniAppLoadedWithoutContext(scr) == detectWebViewState(scr) # "loading"
miniAppLoaded(scr) == scr.webview /\ detectWebViewState(scr) # "loading"

\* waitForMiniAppLoad(): true once a WEBVIEW_ context shows a state other
\* than loading, false when the poll times out; getContexts and
\* switchContext may raise.
performClaim_waitForMiniAppLoad ==
  /\ step = "w_idle"
  /\ \/ \E m \in DeviceErrors :
          performClaim_catch(deviceLog, m) /\ UNCHANGED miniAppState
     \/ /\ miniAppLoaded(screen)
        /\ step' = "w_detect"
        /\ UNCHANGED << miniAppState, deviceLog, returned >>
     \/ /\ ~miniAppLoaded(screen)
        /\ deviceLog' = Append(deviceLog, "takeDebugScreenshot")
        /\ returned' = [ success |-> FALSE, state |-> "loading",
                         error |-> "MiniApp failed to load within timeout" ]
        /\ step' = "w_done"
        /\ UNCHANGED miniAppState
  /\ UNCHANGED screen
  /\ UNCHANGED otherVars

\* detectCurrentState(): the surface may have changed since the poll.
performClaim_detectCurrentState ==
  /\ step = "w_detect"
  /\ \E scr \in Screens :
       /\ screen' = scr
       /\ \/ \E m \in DeviceErrors :
               performClaim_catch(deviceLog, m) /\ UNCHANGED miniAppState
          \/ /\ IF scr.webview
                  THEN miniAppState' = detectCurrentState(scr, NoSource)
                  ELSE \E source \in PageSources :
                         miniAppState' = detectCurrentState(scr, source)
             /\ step' = "w_switch"
             /\ UNCHANGED << deviceLog, returned >>
  /\ UNCHANGED otherVars

\* switch (state): the branches that return at once.
performClaim_switch ==
  /\ step = "w_switch"
  /\ LET b == branch(miniAppState)
     IN CASE b = "return" ->
               /\ returned' = [ success |-> TRUE, state |-> "already_claimed",
                                error |-> Undefined ]
               /\ step' = "w_done"
               /\ UNCHANGED deviceLog
          [] b = "click" ->
               /\ step' = "w_click"
               /\ UNCHANGED << deviceLog, returned >>
          [] OTHER ->
               /\ deviceLog' = Append(deviceLog, "takeDebugScreenshot")
               /\ returned' = failureResult(miniAppState)
               /\ step' = "w_done"
  /\ UNCHANGED << screen, miniAppState >>
  /\ UNCHANGED otherVars

\* case "claim_available": clickClaimButton().  It returns true after a
\* click on a displayed claim element; a raising click or context switch
\* inside the loop is skipped over, one outside the loop raises.
performClaim_clickClaimButton ==
  /\ step = "w_click"
  /\ LET canClick == screen.webview /\ anyDisplayed(WEB_SELECTORS.claimButton, screen)
     IN \E clicked \in { FALSE, canClick } :
          LET log == IF clicked THEN Append(deviceLog, "claim click") ELSE deviceLog
          IN \/ \E m \in DeviceErrors : performClaim_catch(log, m)
             \/ /\ clicked
                /\ deviceLog' = Append(log, "clickClaimButton: true")
                /\ step' = "w_confirm"
                /\ UNCHANGED returned
             \/ /\ deviceLog' = log \o << "clickClaimButton: false", "takeDebugScreenshot" >>
                /\ returned' = [ success |-> FALSE, state |-> "error",
                                 error |-> "Failed to click claim button" ]
                /\ step' = "w_done"
  /\ UNCHANGED << screen, miniAppState >>
  /\ UNCHANGED otherVars

\* confirmTransaction(): clicks the native confirmation when one is found;
\* the lookup swallows its errors, the click does not.
performClaim_confirmTransaction ==
  /\ step = "w_confirm"
  /\ \E popup \in BOOLEAN :
       LET log == IF popup THEN Append(deviceLog, "confirm click") ELSE deviceLog
       IN \/ popup /\ \E m \in DeviceErrors : performClaim_catch(log, m)
          \/ /\ deviceLog' = log
             /\ step' = "w_verify"
             /\ UNCHANGED returned
  /\ UNCHANGED << screen, miniAppState >>
  /\ UNCHANGED otherVars

\* verifyClaimSuccess() on the surface as it is after the click, then the
\* screenshot and the result.
performClaim_verifyClaimSuccess ==
  /\ step = "w_verify"
  /\ \E scr \in Screens :
       /\ screen' = scr
       /\ \/ \E m \in DeviceErrors : performClaim_catch(deviceLog, m)
          \/ \E source \in PageSources :
               LET verified == verifyClaimSuccess(scr, source)
               IN /\ deviceLog' = deviceLog \o
                       << IF verified THEN "verifyClaimSuccess: true"
                                      ELSE "verifyClaimSuccess: false",
                          "takeDebugScreenshot" >>
                  /\ returned' = claimResultAfterClick(verified)
                  /\ step' = "w_done"
  /\ UNCHANGED miniAppState
  /\ UNCHANGED otherVars

(***************************************************************************)
(* The operations of MiniAppClaimer that switch to the embedded surface:   *)
(* detectCurrentState, waitForMiniAppLoad, clickClaimButton and            *)
(* verifyClaimSuccess, one device call at a time.                          *)
(***************************************************************************)
SurfaceOperations ==
  { "detectCurrentState", "waitForMiniAppLoad", "clickClaimButton",
    "verifyClaimSuccess" }

\* await this.driver.switchContext(target): the active context once the
\* call has returned, and the contexts a raising call may leave behind.
switchContext(current, target, ok) ==
  IF ok THEN { target } ELSE { current, target }

\* What the checks made inside the embedded surface find: whether the
\* operation reaches its switch back inside the try block.  After a caught
\* failure the loop goes on with the selectors that are left.
inspect(operation, scr, rest) ==
  CASE operation = "detectCurrentState" -> { FALSE }
    [] operation = "waitForMiniAppLoad" -> { detectWebViewState(scr) # "loading" }
    [] operation = "clickClaimButton" ->
         IF rest \/ anyDisplayed(WEB_SELECTORS.claimButton, scr)
           THEN BOOLEAN ELSE { FALSE }
    [] operation = "verifyClaimSuccess" ->
         IF rest THEN BOOLEAN
         ELSE { anyDisplayed(WEB_SELECTORS.alreadyClaimed, scr) }

\* The selectors the loop of the operation goes through; the other two
\* operations make one classification.
selectorsOf(operation) ==
  CASE operation = "clickClaimButton" -> WEB_SELECTORS.claimButton
    [] operation = "verifyClaimSuccess" -> WEB_SELECTORS.alreadyClaimed
    [] OTHER -> << "detectWebViewState" >>

\* The operations returning as soon as the check has hit.
afterInspectReturnsOnHit(operation, hit) ==
  IF hit THEN "s_return" ELSE "s_switchBack"

\* Where the operation goes on after the checks: the switch back inside the
\* try block before return true, or the one after the checks.
afterInspect(operation, hit) ==
  IF hit THEN "s_switchBackInTry" ELSE "s_switchBack"

\* const contexts = await this.driver.getContexts(); without a WEBVIEW_
\* context no switch is made.
surface_getContexts ==
  /\ surface.pc = "s_getContexts"
  /\ \/ surface' = [ surface EXCEPT !.pc = "s_done", !.outcome = "raised" ]
     \/ /\ screen.webview
        /\ surface' = [ surface EXCEPT !.pc = "s_switchIn" ]
     \/ /\ ~screen.webview
        /\ \E timedOut \in BOOLEAN :
             /\ surface.operation # "waitForMiniAppLoad" => timedOut
             /\ surface' = [ surface EXCEPT
                   !.pc = IF timedOut THEN "s_return" ELSE "s_getContexts" ]
  /\ UNCHANGED << pageSource, lookup, poll, creation >>
  /\ UNCHANGED << processVars, createVars, claimVars, retryVars, sessionVars,
                  workflowVars >>
  /\ UNCHANGED flowVars

\* await this.driver.switchContext(webviewContext), outside every try.
surface_switchToWebView ==
  /\ surface.pc = "s_switchIn"
  /\ \E ok \in BOOLEAN :
       \E ctx \in switchContext(surface.context, "WEBVIEW", ok) :
         surface' = [ surface EXCEPT
           !.context = ctx,
           !.switched = ok,
           !.pc = IF ok THEN "s_inspect" ELSE "s_done",
           !.outcome = IF ok THEN @ ELSE "raised" ]
  /\ UNCHANGED << pageSource, lookup, poll, creation >>
  /\ UNCHANGED << processVars, createVars, claimVars, retryVars, sessionVars,
                  workflowVars >>
  /\ UNCHANGED flowVars

\* The checks inside the embedded surface; what they raise is caught.
surface_inspect ==
  /\ surface.pc = "s_inspect"
  /\ \E hit \in inspect(surface.operation, screen, surface.rest) :
       /\ hit /\ surface.rest => surface.tried < Len(selectorsOf(surface.operation))
       /\ surface' = [ surface EXCEPT
            !.pc = afterInspect(surface.operation, hit),
            !.tried = IF hit THEN @ + 1 ELSE @,
            !.clicks = IF hit /\ surface.operation = "clickClaimButton"
                         THEN @ + 1 ELSE @ ]
  /\ UNCHANGED << pageSource, lookup, poll, creation >>
  /\ UNCHANGED << processVars, createVars, claimVars, retryVars, sessionVars,
                  workflowVars >>
  /\ UNCHANGED flowVars

\* await this.driver.switchContext("NATIVE_APP") inside the try block,
\* before return true; when it raises the catch block goes on: to the
\* switch after the checks in waitForMiniAppLoad, to the next selector in
\* the loops.
surface_switchBackInTry ==
  /\ surface.pc = "s_switchBackInTry"
  /\ \E ok \in BOOLEAN :
       \E ctx \in switchContext(surface.context, "NATIVE_APP", ok) :
         surface' = [ surface EXCEPT
           !.context = ctx,
           !.rest = IF ok THEN @ ELSE TRUE,
           !.pc = IF ok THEN "s_return"
                  ELSE IF surface.operation = "waitForMiniAppLoad"
                    THEN "s_switchBack" ELSE "s_inspect" ]
  /\ UNCHANGED << pageSource, lookup, poll, creation >>
  /\ UNCHANGED << processVars, createVars, claimVars, retryVars, sessionVars,
                  workflowVars >>
  /\ UNCHANGED flowVars

\* await this.driver.switchContext("NATIVE_APP") after the checks, outside
\* every try; waitForMiniAppLoad then polls again or times out.
surface_switchBack ==
  /\ surface.pc = "s_switchBack"
  /\ \E ok \in BOOLEAN, timedOut \in BOOLEAN :
       \E ctx \in switchContext(surface.context, "NATIVE_APP", ok) :
         /\ surface.operation # "waitForMiniAppLoad" => timedOut
         /\ surface' = [ surface EXCEPT
               !.context = ctx,
               !.pc = IF ~ok THEN "s_done"
                      ELSE IF timedOut THEN "s_return" ELSE "s_getContexts",
               !.outcome = IF ok THEN @ ELSE "raised" ]
  /\ UNCHANGED << pageSource, lookup, poll, creation >>
  /\ UNCHANGED << processVars, createVars, claimVars, retryVars, sessionVars,
                  workflowVars >>
  /\ UNCHANGED flowVars

\* return state / return true / return false.
surface_return ==
  /\ surface.pc = "s_return"
  /\ surface' = [ surface EXCEPT !.pc = "s_done", !.outcome = "returned" ]
  /\ UNCHANGED << pageSource, lookup, poll, creation >>
  /\ UNCHANGED << processVars, createVars, claimVars, retryVars, sessionVars,
                  workflowVars >>
  /\ UNCHANGED flowVars

(***************************************************************************)
(* AppiumDriver.findByMultipleSelectors, one candidate at a time.          *)
(***************************************************************************)
\* What driver.$(selector) followed by element.isExisting() does for one
\* candidate: the element exists, it does not, or the call raises.
CandidateOutcomes == { "exists", "absent", "fails" }

LocatorLists ==
  UNION { [ 1..n -> CandidateOutcomes ] : n \in 0..MaxCandidates }

\* The loop body never returning the element it found.
checkCandidateSkipsHit(outcome) == "continue"

\* The loop body without its try block: a raising check leaves the loop.
checkCandidateRaising(outcome) ==
  CASE outcome = "exists" -> "return"
    [] outcome = "absent" -> "continue"
    [] outcome = "fails" -> "raise"

\* try { ... if (exists) return element } catch { continue }
checkCandidate(outcome) ==
  CASE outcome = "exists" -> "return"
    [] outcome = "absent" -> "continue"
    [] outcome = "fails" -> "continue"

\* const driver = this.getDriver(): raises when no session was opened.
findByMultipleSelectors_getDriver ==
  /\ lookup.pc = "f_getDriver"
  /\ lookup' = IF lookup.ready
                 THEN [ lookup EXCEPT !.pc = "f_loop" ]
                 ELSE [ lookup EXCEPT !.pc = "f_done",
                                      !.result = [ kind |-> "raise", index |-> 0 ] ]
  /\ UNCHANGED << pageSource, surface, poll, creation >>
  /\ UNCHANGED << processVars, createVars, claimVars, retryVars, sessionVars,
                  workflowVars >>
  /\ UNCHANGED flowVars

\* One iteration of for (const sel of selectors).
findByMultipleSelectors_check ==
  /\ lookup.pc = "f_loop"
  /\ lookup.cursor <= Len(lookup.selectors)
  /\ LET todo == checkCandidate(lookup.selectors[lookup.cursor])
     IN lookup' = [ lookup EXCEPT
          !.checked = Append(@, lookup.cursor),
          !.cursor = IF todo = "continue" THEN @ + 1 ELSE @,
          !.pc = IF todo = "continue" THEN @ ELSE "f_done",
          !.result = CASE todo = "return" ->
                            [ kind |-> "element", index |-> lookup.cursor ]
                       [] todo = "raise" -> [ kind |-> "raise", index |-> 0 ]
                       [] OTHER -> @ ]
  /\ UNCHANGED << pageSource, surface, poll, creation >>
  /\ UNCHANGED << processVars, createVars, claimVars, retryVars, sessionVars,
                  workflowVars >>
  /\ UNCHANGED flowVars

\* return null, once the list is exhausted.
findByMultipleSelectors_returnNull ==
  /\ lookup.pc = "f_loop"
  /\ lookup.cursor > Len(lookup.selectors)
  /\ lookup' = [ lookup EXCEPT !.pc = "f_done",
                               !.result = [ kind |-> "null", index |-> 0 ] ]
  /\ UNCHANGED << pageSource, surface, poll, creation >>
  /\ UNCHANGED << processVars, createVars, claimVars, retryVars, sessionVars,
                  workflowVars >>
  /\ UNCHANGED flowVars

(***************************************************************************)
(* The polling loops: waitForWalletCreation, waitForMiniAppLoad and        *)
(* dismissPermissionDialog, one iteration at a time.                       *)
(***************************************************************************)
PollingLoops ==
  { "waitForWalletCreation", "waitForMiniAppLoad", "dismissPermissionDialog" }

\* const pollInterval
pollInterval(loop) ==
  IF loop = "dismissPermissionDialog" THEN 1000 ELSE 2000

\* A loop waiting three times the element timeout.
maxWaitTripled(loop, elementTimeout) ==
  IF loop = "dismissPermissionDialog" THEN 5000 + 1000 ELSE elementTimeout * 3

\* const timeout = this.config.timing.elementTimeout * 2; const maxWait = 5000
maxWait(loop, elementTimeout) ==
  IF loop = "dismissPermissionDialog" THEN 5000 ELSE elementTimeout * 2

\* What one iteration meets: the awaited signal, nothing, or a device call
\* outside every try block that raises.
PollOutcomes == { "signal", "nothing", "raises" }

\* while (elapsed < timeout) { ...; if (found) return; await sleep;
\* elapsed += pollInterval } of the loop named.
pollStep(loop) ==
  /\ poll.loop = loop
  /\ poll.pc = "p_loop"
  /\ IF poll.elapsed < maxWait(loop, poll.elementTimeout)
       THEN \E outcome \in PollOutcomes :
              poll' = [ poll EXCEPT
                !.polls = @ + 1,
                !.elapsed = IF outcome = "nothing" THEN @ + pollInterval(loop) ELSE @,
                !.pc = IF outcome = "nothing" THEN @ ELSE "p_done",
                !.outcome = IF outcome = "nothing" THEN @ ELSE outcome ]
       ELSE poll' = [ poll EXCEPT !.pc = "p_done", !.outcome = "timeout" ]
  /\ UNCHANGED << pageSource, surface, lookup, creation >>
  /\ UNCHANGED << processVars, createVars, claimVars, retryVars, sessionVars,
                  workflowVars >>
  /\ UNCHANGED flowVars

waitForWalletCreation_poll == pollStep("waitForWalletCreation")

waitForMiniAppLoad_poll == pollStep("waitForMiniAppLoad")

dismissPermissionDialog_poll == pollStep("dismissPermissionDialog")

(***************************************************************************)
(* WalletCreator.createWallet of appium-driver.ts, one step at a time.     *)
(***************************************************************************)
\* The steps with the PIN entered before the create-account click.
CREATE_STEPS_PinFirst ==
  << "resetApp", "launch", "dismissPermissionDialog",
     "dumpCurrentScreen welcome", "enterPin", "clickCreateNewWallet",
     "dumpCurrentScreen after_create", "handlePasskey", "confirmPin",
     "dumpCurrentScreen after_pin", "dismissDialogs", "waitForWalletCreation",
     "readWalletName", "readWalletAddress", "dumpCurrentScreen wallet_home",
     "captureWalletInfo" >>

\* The steps of the try block, in the order they are awaited;
\* handlePasskeyOrPin is the passkey dialog, enterPin and confirmPin.
CREATE_STEPS ==
  << "resetApp", "launch", "dismissPermissionDialog",
     "dumpCurrentScreen welcome", "clickCreateNewWallet",
     "dumpCurrentScreen after_create", "handlePasskey", "enterPin",
     "confirmPin",
     "dumpCurrentScreen after_pin", "dismissDialogs", "waitForWalletCreation",
     "readWalletName", "readWalletAddress", "dumpCurrentScreen wallet_home",
     "captureWalletInfo" >>

\* How a step can end.  resetApp, dumpCurrentScreen, readWalletName,
\* readWalletAddress and takeDebugScreenshot catch what they raise; a
\* lookup never raises, a click, a launch or sendKeys may.
stepOutcomes(name) ==
  CASE name \in { "launch", "dismissPermissionDialog", "dismissDialogs",
                  "handlePasskey" } ->
         { "ok", "device error" }
    [] name \in { "clickCreateNewWallet", "enterPin", "confirmPin" } ->
         { "ok", "not found", "device error" }
    [] name = "waitForWalletCreation" -> { "found", "timeout", "device error" }
    [] name = "readWalletName" -> readWalletName
    [] name = "readWalletAddress" -> readWalletAddress
    [] OTHER -> { "ok" }

\* A step that raises when its wait times out.
raisesOnTimeout(name, outcome) ==
  outcome \in { "not found", "device error", "timeout" }

\* Whether the step raises: a required element that was not found is an
\* Error thrown by the step, a failing device call raises by itself, and
\* the wait that times out only logs a warning.
raises(name, outcome) ==
  /\ name \notin { "readWalletName", "readWalletAddress" }
  /\ outcome \in { "not found", "device error" }

\* The message of the error a step raises.
stepError(name, outcome) ==
  IF outcome = "not found"
    THEN IF name = "clickCreateNewWallet"
           THEN "'Create Account' button not found on welcome screen"
           ELSE "Digit button not found on screen"
    ELSE "device error"

\* What a step leaves in the log: its name, and the screenshot
\* clickCreateNewWallet takes before it throws.
stepLog(name, outcome) ==
  IF name = "clickCreateNewWallet" /\ outcome = "not found"
    THEN << name, "takeDebugScreenshot no_create_account_btn" >>
    ELSE << name >>

\* An error leaving createWallet without passing through its catch block.
afterFailureSkipsCatch(name) == "cw_throw"

\* Where control goes when a step of the try block raises.
afterFailure(name) == "cw_catch"

\* One awaited step of the try block.
createWallet_step ==
  /\ creation.pc = "cw_try"
  /\ creation.next <= Len(CREATE_STEPS)
  /\ LET name == CREATE_STEPS[creation.next]
     IN \E outcome \in stepOutcomes(name) :
          creation' = [ creation EXCEPT
            !.log = @ \o stepLog(name, outcome),
            !.waited = IF name = "waitForWalletCreation" THEN outcome ELSE @,
            !.walletName = IF name = "readWalletName" THEN outcome ELSE @,
            !.walletAddress = IF name = "readWalletAddress" THEN outcome ELSE @,
            !.next = IF raises(name, outcome) THEN @ ELSE @ + 1,
            !.pc = IF raises(name, outcome) THEN afterFailure(name) ELSE @,
            !.failedAt = IF raises(name, outcome) THEN name ELSE @,
            !.error = IF raises(name, outcome) THEN stepError(name, outcome) ELSE @ ]
  /\ UNCHANGED << pageSource, surface, lookup, poll >>
  /\ UNCHANGED << processVars, createVars, claimVars, retryVars, sessionVars,
                  workflowVars >>
  /\ UNCHANGED flowVars

\* return walletData
createWallet_return ==
  /\ creation.pc = "cw_try"
  /\ creation.next > Len(CREATE_STEPS)
  /\ \E t \in Timestamps :
       creation' = [ creation EXCEPT
         !.pc = "cw_done",
         !.result = [ kind |-> "return",
                      wallet |-> WalletCreated(creation.index, creation.walletName,
                                               creation.walletAddress, t) ] ]
  /\ UNCHANGED << pageSource, surface, lookup, poll >>
  /\ UNCHANGED << processVars, createVars, claimVars, retryVars, sessionVars,
                  workflowVars >>
  /\ UNCHANGED flowVars

\* catch (err): dumpCurrentScreen and takeDebugScreenshot, neither of which
\* raises.
createWallet_catch ==
  /\ creation.pc = "cw_catch"
  /\ creation' = [ creation EXCEPT
       !.log = @ \o << "dumpCurrentScreen error", "takeDebugScreenshot error" >>,
       !.pc = "cw_throw" ]
  /\ UNCHANGED << pageSource, surface, lookup, poll >>
  /\ UNCHANGED << processVars, createVars, claimVars, retryVars, sessionVars,
                  workflowVars >>
  /\ UNCHANGED flowVars

\* throw err: the error reaches the caller of createWallet.
createWallet_throw ==
  /\ creation.pc = "cw_throw"
  /\ creation' = [ creation EXCEPT
       !.pc = "cw_done",
       !.result = [ kind |-> "throw", error |-> creation.error ] ]
  /\ UNCHANGED << pageSource, surface, lookup, poll >>
  /\ UNCHANGED << processVars, createVars, claimVars, retryVars, sessionVars,
                  workflowVars >>
  /\ UNCHANGED flowVars

(***************************************************************************)
(* BaseAppController.logout and login as runClaim calls them for one       *)
(* account after the other.  loggedInAs is the account the app is logged   *)
(* in as, 0 when it shows no home screen.                                  *)
(***************************************************************************)
\* logout(): the app is signed out only when the sign-out control was found
\* and clicked; without it, and in the force-stop fallback, nothing changes.
logout(loggedInAs) == { 0, loggedInAs }

\* login(email, password): true at once when isLoggedIn() finds the home
\* indicator; otherwise the sign-in flow, verified by isLoggedIn(), or false.
login(loggedInAs, id) ==
  IF loggedInAs # 0
    THEN { [ returns |-> TRUE, loggedInAs |-> loggedInAs ] }
    ELSE { [ returns |-> TRUE, loggedInAs |-> id ],
           [ returns |-> FALSE, loggedInAs |-> 0 ] }

\* if (!isFirstAccount) await baseApp.logout(); isFirstAccount = false
BaseApp_logout ==
  /\ app.pc = "a_logout"
  /\ \E who \in IF app.isFirstAccount THEN { app.loggedInAs }
                  ELSE logout(app.loggedInAs) :
       app' = [ app EXCEPT !.pc = "a_login", !.loggedInAs = who,
                           !.isFirstAccount = FALSE ]
  /\ UNCHANGED << pageSource, surface, lookup, poll, creation, servers, linking >>
  /\ UNCHANGED << processVars, createVars, claimVars, retryVars, sessionVars,
                  workflowVars >>

\* baseApp.launch() and withRetry(login): a login that returns false on its
\* last attempt sends the account to the catch block.
BaseApp_login ==
  /\ app.pc = "a_login"
  /\ \E r \in login(app.loggedInAs, app.account) :
       app' = [ app EXCEPT !.pc = IF r.returns THEN "a_claim" ELSE "a_next",
                           !.loggedInAs = r.loggedInAs ]
  /\ UNCHANGED << pageSource, surface, lookup, poll, creation, servers, linking >>
  /\ UNCHANGED << processVars, createVars, claimVars, retryVars, sessionVars,
                  workflowVars >>

\* openMiniAppLink, performClaim and updateStatus for the account.
BaseApp_claim ==
  /\ app.pc = "a_claim"
  /\ app' = [ app EXCEPT
       !.pc = "a_next",
       !.claims = @ \cup { [ account |-> app.account,
                             loggedInAs |-> app.loggedInAs ] } ]
  /\ UNCHANGED << pageSource, surface, lookup, poll, creation, servers, linking >>
  /\ UNCHANGED << processVars, createVars, claimVars, retryVars, sessionVars,
                  workflowVars >>

\* account = await manager.getNextAccount()
BaseApp_getNextAccount ==
  /\ app.pc = "a_next"
  /\ app' = IF app.account < NumAccounts
              THEN [ app EXCEPT !.pc = "a_logout", !.account = @ + 1 ]
              ELSE [ app EXCEPT !.pc = "a_done" ]
  /\ UNCHANGED << pageSource, surface, lookup, poll, creation, servers, linking >>
  /\ UNCHANGED << processVars, createVars, claimVars, retryVars, sessionVars,
                  workflowVars >>

\* detectCurrentState() applied to a surface and a page source, on its own.
detectCurrentState_classify ==
  /\ step = "d_idle"
  /\ miniAppState' = detectCurrentState(screen, pageSource)
  /\ step' = "d_done"
  /\ UNCHANGED << screen, deviceLog, returned >>
  /\ UNCHANGED otherVars

NoScreen == [ webview |-> FALSE, displayed |-> { }, raising |-> { } ]

NoSurface == [ operation |-> "none" ]

NoLookup == [ selectors |-> << >> ]

NoPoll == [ loop |-> "none" ]

NoCreation == [ index |-> 0 ]

NoApp == [ pc |-> "none" ]

NoServers == [ pc |-> "none" ]

NoLinking == [ pc |-> "none" ]

\* The operations studied on their own, while none of them runs.
InitUnit(except) ==
  /\ "pageSource" \in except \/ pageSource = NoSource
  /\ "surface" \in except \/ surface = NoSurface
  /\ "lookup" \in except \/ lookup = NoLookup
  /\ "poll" \in except \/ poll = NoPoll
  /\ "creation" \in except \/ creation = NoCreation
  /\ "app" \in except \/ app = NoApp
  /\ "servers" \in except \/ servers = NoServers
  /\ "linking" \in except \/ linking = NoLinking

\* performClaim before it is invoked.
InitWorkflow ==
  /\ step = "w_idle"
  /\ miniAppState = "none"
  /\ deviceLog = << >>
  /\ returned = NoResult

\* The state before the first run: a fresh Wallets sheet (initializeExcel)
\* and an Accounts sheet filled in by the operator.  The create command
\* leaves the Accounts sheet alone and the claim command the Wallets sheet,
\* so each behaviour fixes the sheet its command does not use.
Init ==
  /\ command \in { "create", "claim" }
  /\ config \in Configs
  /\ accounts \in AccountSheets
  /\ InitProcess
  /\ InitCreate
  /\ InitClaim
  /\ command = "create" => \A k \in 1..NumAccounts : accounts[k].claimStatus = "pending"
  /\ command = "claim" =>
        /\ config.startIndex = 0
        /\ config.walletCount = 0
        /\ creator = "returns-failed"
  /\ InitWithRetry
  /\ options = [ maxRetries |-> 0, delayMs |-> 3000, backoffMultiplier |-> 2,
                 onRetry |-> FALSE ]
  /\ script = [ always |-> FALSE, failures |-> 0 ]
  /\ InitWorkflow
  /\ screen = NoScreen
  /\ InitUnit({ })

Next ==
  \/ runCreate_load
  \/ runCreate_initialize
  \/ runCreate_launch
  \/ runCreate_attempt
  \/ runCreate_backoff
  \/ runCreate_appendWallet
  \/ runCreate_exportReport
  \/ runClaim_load
  \/ runClaim_initialize
  \/ runClaim_launch
  \/ runClaim_login
  \/ runClaim_performClaim
  \/ runClaim_updateStatus
  \/ runClaim_catch
  \/ captureDebugInfo_settle
  \/ runClaim_getNextAccount
  \/ runClaim_exportReport
  \/ cleanup
  \/ Kill
  \/ Restart

Spec == Init /\ [][Next]_vars

(***************************************************************************)
(* withRetry applied to every scripted operation under every option set.   *)
(***************************************************************************)
InitRetry ==
  /\ command = "none"
  /\ config = [ startIndex |-> 0, walletCount |-> 0, maxRetries |-> 0 ]
  /\ accounts = << >>
  /\ InitProcess
  /\ InitCreate
  /\ InitClaim
  /\ creator = "returns-failed"
  /\ InitWithRetry
  /\ options \in RetryOptions
  /\ script \in Scripts
  /\ InitWorkflow
  /\ screen = NoScreen
  /\ InitUnit({ })

NextRetry ==
  \/ withRetry_attempt
  \/ withRetry_wake
  \/ withRetry_throw
  \/ onRetry_settle

SpecRetry == InitRetry /\ [][NextRetry]_vars

(***************************************************************************)
(* performClaim applied to every surface.                                  *)
(***************************************************************************)
InitClaimWorkflow ==
  /\ command = "none"
  /\ config = [ startIndex |-> 0, walletCount |-> 0, maxRetries |-> 0 ]
  /\ accounts = << >>
  /\ InitProcess
  /\ InitCreate
  /\ InitClaim
  /\ creator = "returns-failed"
  /\ InitWithRetry
  /\ options = [ maxRetries |-> 0, delayMs |-> 3000, backoffMultiplier |-> 2,
                 onRetry |-> FALSE ]
  /\ script = [ always |-> FALSE, failures |-> 0 ]
  /\ InitWorkflow
  /\ screen \in Screens
  /\ InitUnit({ })

NextClaimWorkflow ==
  \/ performClaim_waitForMiniAppLoad
  \/ performClaim_detectCurrentState
  \/ performClaim_switch
  \/ performClaim_clickClaimButton
  \/ performClaim_confirmTransaction
  \/ performClaim_verifyClaimSuccess

SpecClaimWorkflow == InitClaimWorkflow /\ [][NextClaimWorkflow]_vars

\* Everything but the operation a specification studies: no command runs.
InitIdle ==
  /\ command = "none"
  /\ config = [ startIndex |-> 0, walletCount |-> 0, maxRetries |-> 0 ]
  /\ accounts = << >>
  /\ InitProcess
  /\ InitCreate
  /\ InitClaim
  /\ creator = "returns-failed"
  /\ InitWithRetry
  /\ options = [ maxRetries |-> 0, delayMs |-> 3000, backoffMultiplier |-> 2,
                 onRetry |-> FALSE ]
  /\ script = [ always |-> FALSE, failures |-> 0 ]

(***************************************************************************)
(* detectCurrentState applied to every surface and every page source.      *)
(***************************************************************************)
InitClassifier ==
  /\ InitIdle
  /\ step = "d_idle"
  /\ miniAppState = "none"
  /\ deviceLog = << >>
  /\ returned = NoResult
  /\ screen \in Screens
  /\ pageSource \in PageSources
  /\ InitUnit({ "pageSource" })

NextClassifier == detectCurrentState_classify

(***************************************************************************)
(* The operations that switch context, applied to every surface.           *)
(***************************************************************************)
InitSurface ==
  /\ InitIdle
  /\ InitWorkflow
  /\ screen \in Screens
  /\ surface \in [ operation : SurfaceOperations, pc : { "s_getContexts" },
                    context : { "NATIVE_APP" }, outcome : { "running" },
                    switched : { FALSE }, rest : { FALSE }, tried : { 0 },
                    clicks : { 0 } ]
  /\ InitUnit({ "surface" })

NextSurface ==
  \/ surface_getContexts
  \/ surface_switchToWebView
  \/ surface_inspect
  \/ surface_switchBackInTry
  \/ surface_switchBack
  \/ surface_return

SpecSurface == InitSurface /\ [][NextSurface]_vars

(***************************************************************************)
(* findByMultipleSelectors applied to every locator list.                  *)
(***************************************************************************)
InitResolver ==
  /\ InitIdle
  /\ InitWorkflow
  /\ screen = NoScreen
  /\ \E list \in LocatorLists, ready \in BOOLEAN :
       lookup = [ selectors |-> list, ready |-> ready, pc |-> "f_getDriver",
                  cursor |-> 1, checked |-> << >>,
                  result |-> [ kind |-> "none", index |-> 0 ] ]
  /\ InitUnit({ "lookup" })

NextResolver ==
  \/ findByMultipleSelectors_getDriver
  \/ findByMultipleSelectors_check
  \/ findByMultipleSelectors_returnNull

SpecResolver == InitResolver /\ [][NextResolver]_vars

(***************************************************************************)
(* The polling loops under every element timeout.  Every device call and   *)
(* every sleep returns, so a loop that can take a step takes it.           *)
(***************************************************************************)
InitPolling ==
  /\ InitIdle
  /\ InitWorkflow
  /\ screen = NoScreen
  /\ poll \in [ loop : PollingLoops, elementTimeout : 1..MaxElementTimeout,
                 elapsed : { 0 }, polls : { 0 }, pc : { "p_loop" },
                 outcome : { "none" } ]
  /\ InitUnit({ "poll" })

NextPolling ==
  \/ waitForWalletCreation_poll
  \/ waitForMiniAppLoad_poll
  \/ dismissPermissionDialog_poll

SpecPolling == InitPolling /\ [][NextPolling]_vars /\ WF_vars(NextPolling)

(***************************************************************************)
(* createWallet applied to every unit index, every step ending in every    *)
(* way it can.                                                             *)
(***************************************************************************)
InitCreateWallet ==
  /\ InitIdle
  /\ InitWorkflow
  /\ screen = NoScreen
  /\ \E index \in 0..(MaxStartIndex + MaxWalletCount - 1) :
       creation = [ index |-> index, pc |-> "cw_try", next |-> 1, log |-> << >>,
                    waited |-> "none", walletName |-> "", walletAddress |-> "",
                    error |-> Undefined, failedAt |-> Undefined,
                    result |-> [ kind |-> "none" ] ]
  /\ InitUnit({ "creation" })

NextCreateWallet ==
  \/ createWallet_step
  \/ createWallet_return
  \/ createWallet_catch
  \/ createWallet_throw

SpecCreateWallet == InitCreateWallet /\ [][NextCreateWallet]_vars

SpecClassifier == InitClassifier /\ [][NextClassifier]_vars

(***************************************************************************)
(* The accounts of a claim run logged out and in one after the other; the *)
(* app may have been left logged in by an earlier run.                     *)
(***************************************************************************)
InitLogin ==
  /\ InitIdle
  /\ InitWorkflow
  /\ screen = NoScreen
  /\ \E who \in 0..NumAccounts :
       app = [ pc |-> "a_logout", account |-> 1, loggedInAs |-> who,
               isFirstAccount |-> TRUE, claims |-> { } ]
  /\ InitUnit({ "app" })

NextLogin ==
  \/ BaseApp_logout
  \/ BaseApp_login
  \/ BaseApp_claim
  \/ BaseApp_getNextAccount

SpecLogin == InitLogin /\ [][NextLogin]_vars

(***************************************************************************)
(* The Appium server processes of one run: initialize() under withRetry,   *)
(* then cleanup() in the finally block.  A process handle is numbered by   *)
(* the attempt that spawned it; 0 is null.                                 *)
(***************************************************************************)
InitializeMaxRetries == 2

Platforms == { "win32", "other" }

\* What the wait for readiness of a freshly spawned process ends with: the
\* ready line on stdout, the 30 s timer, the "exit" event, the "error" event
\* (the process could not be spawned and has no pid).
StartOutcomes == { "ready", "timeout", "exit", "error" }

\* startAppiumServer(): nothing is spawned when a server answers on the
\* port; otherwise a process is spawned and this.appiumProcess refers to it,
\* whatever the wait ends with.
startAppiumServer(s, outcome) ==
  IF s.running
    THEN s
    ELSE [ s EXCEPT !.appiumProcess = s.attempt,
                    !.spawned = IF outcome = "error" THEN @ ELSE @ \cup { s.attempt },
                    !.exited = IF outcome = "exit" THEN @ \cup { s.attempt } ELSE @,
                    !.running = (outcome = "ready") ]

\* startAppiumServer() returns normally.
serverReady(s, outcome) == s.running \/ outcome = "ready"

\* One attempt of withRetry(() => appiumDriver.initialize(), {maxRetries: 2}):
\* startAppiumServer(), then remote(); a failed attempt is retried until the
\* third has failed, and then the error leaves the try block.
AppiumDriver_initialize ==
  /\ servers.pc = "s_init"
  /\ \E outcome \in StartOutcomes, session \in BOOLEAN :
       LET started == startAppiumServer(servers, outcome)
           ok == serverReady(servers, outcome) /\ session
           last == servers.attempt > InitializeMaxRetries
       IN servers' = [ started EXCEPT
                         !.driver = ok,
                         !.attempt = IF ok \/ last THEN @ ELSE @ + 1,
                         !.pc = IF ok \/ last THEN "s_cleanup" ELSE "s_init",
                         !.error = ~ok /\ last ]
  /\ UNCHANGED << pageSource, surface, lookup, poll, creation, app, linking >>
  /\ UNCHANGED << processVars, createVars, claimVars, retryVars, sessionVars,
                  workflowVars >>

\* A process whose start timed out goes on starting and begins to answer on
\* the port while withRetry sleeps before the next attempt.
Appium_listens ==
  /\ servers.pc = "s_init"
  /\ ~servers.running
  /\ servers.spawned \ servers.exited # { }
  /\ servers' = [ servers EXCEPT !.running = TRUE ]
  /\ UNCHANGED << pageSource, surface, lookup, poll, creation, app, linking >>
  /\ UNCHANGED << processVars, createVars, claimVars, retryVars, sessionVars,
                  workflowVars >>

\* cleanup(): the session is deleted; the process this.appiumProcess refers
\* to is told to stop (taskkill on win32, SIGTERM elsewhere) when it has a
\* pid, and the reference is dropped.
AppiumDriver_cleanup ==
  /\ servers.pc = "s_cleanup"
  /\ servers' = [ servers EXCEPT
                    !.pc = "s_done",
                    !.driver = FALSE,
                    !.stopped = IF servers.appiumProcess \in servers.spawned
                                  THEN @ \cup { servers.appiumProcess } ELSE @,
                    !.told = IF servers.appiumProcess \in servers.spawned
                               THEN (IF servers.platform = "win32"
                                       THEN "taskkill" ELSE "SIGTERM")
                               ELSE @,
                    !.appiumProcess = 0 ]
  /\ UNCHANGED << pageSource, surface, lookup, poll, creation, app, linking >>
  /\ UNCHANGED << processVars, createVars, claimVars, retryVars, sessionVars,
                  workflowVars >>

InitServer ==
  /\ InitIdle
  /\ InitWorkflow
  /\ screen = NoScreen
  /\ \E platform \in Platforms, running \in BOOLEAN :
       servers = [ pc |-> "s_init", attempt |-> 1, platform |-> platform,
                   running |-> running, appiumProcess |-> 0,
                   spawned |-> { }, exited |-> { }, stopped |-> { },
                   told |-> "none", driver |-> FALSE, error |-> FALSE ]
  /\ InitUnit({ "servers" })

NextServer ==
  \/ AppiumDriver_initialize
  \/ Appium_listens
  \/ AppiumDriver_cleanup

SpecServer == InitServer /\ [][NextServer]_vars

(***************************************************************************)
(* The claim links handed to the pending accounts of a claim run.  A link  *)
(* is a string; "" is the empty string, which JavaScript takes as false.   *)
(***************************************************************************)
MaxLinks == 3

SheetLinks == { "link-a", "link-b" }

\* The claim link of account k as its row gives it: none, or its own.
ownLink(k) == IF k = 1 THEN "own-1" ELSE IF k = 2 THEN "own-2" ELSE "own-n"

LinkLists == UNION { [ 1..n -> SheetLinks ] : n \in 0..MaxLinks }

PendingLists ==
  UNION { { [ k \in 1..n |-> [ id |-> k,
                              claimLink |-> IF k \in has THEN ownLink(k) ELSE "" ] ] :
            has \in SUBSET (1..n) } : n \in 1..NumAccounts }

\* links[0] || ""
firstLinkOrEmpty(links) == IF Len(links) > 0 THEN links[1] ELSE ""

\* Every account beyond the links is given the first link, its own or not.
assignLinksToAccountsDefaultAlways(list, links) ==
  [ k \in 1..Len(list) |->
      [ list[k] EXCEPT !.claimLink =
          IF k <= Len(links) THEN links[k] ELSE firstLinkOrEmpty(links) ] ]

\* for (i...) { if (i < links.length) accounts[i].claimLink = links[i];
\*              else if (!accounts[i].claimLink)
\*                accounts[i].claimLink = links[0] || "" }
assignLinksToAccounts(list, links) ==
  [ k \in 1..Len(list) |->
      [ list[k] EXCEPT !.claimLink =
          IF k <= Len(links) THEN links[k]
          ELSE IF @ = "" THEN firstLinkOrEmpty(links)
          ELSE @ ] ]

\* runClaim, step 2: links = loadClaimLinks(); with no links the accounts
\* keep what they have, otherwise assignLinksToAccounts(pendingAccounts, links).
runClaim_assignLinks ==
  /\ linking.pc = "l_load"
  /\ linking' = [ linking EXCEPT
                    !.pc = "l_done",
                    !.pendingAccounts =
                       IF Len(linking.links) = 0 THEN @
                       ELSE assignLinksToAccounts(@, linking.links) ]
  /\ UNCHANGED << pageSource, surface, lookup, poll, creation, app, servers >>
  /\ UNCHANGED << processVars, createVars, claimVars, retryVars, sessionVars,
                  workflowVars >>

InitLinks ==
  /\ InitIdle
  /\ InitWorkflow
  /\ screen = NoScreen
  /\ \E list \in PendingLists, links \in LinkLists :
       linking = [ pc |-> "l_load", pendingAccounts |-> list, loaded |-> list,
                   links |-> links ]
  /\ InitUnit({ "linking" })

NextLinks == runClaim_assignLinks

SpecLinks == InitLinks /\ [][NextLinks]_vars

(***************************************************************************)
(* Properties.                                                             *)
(***************************************************************************)
\* The unit indices a up to b - 1, in order.
unitRange(a, b) == [ k \in 1..(IF b > a THEN b - a ELSE 0) |-> a + k - 1 ]

isPrefix(p, q) == Len(p) <= Len(q) /\ \A k \in 1..Len(p) : p[k] = q[k]

running == pc \notin { "idle", "ended" }

\* C1: a create run that finds N rows and has a target of M wallets works
\* through the indices startIndex+N .. startIndex+M-1 in that order (it has
\* begun a prefix of them at any time and all of them, M-N or none, when it
\* returns normally), and the N rows it found stay the first N rows of the
\* sheet, unchanged.
C1_ResumeProcessesRemaining ==
  command = "create" /\ pc # "idle" =>
    LET N == Len(walletsAtStart)
        M == config.walletCount
        remaining == unitRange(config.startIndex + N, config.startIndex + M)
    IN /\ isPrefix(processed, remaining)
       /\ pc = "ended" /\ exitCode = "0" => processed = remaining
       /\ isPrefix(walletsAtStart, wallets)

\* C1 witness: a run that found one row and a target of two has returned
\* normally after processing the one remaining unit.
C1_Witness ==
  /\ command = "create" /\ pc = "ended" /\ exitCode = "0"
  /\ Len(walletsAtStart) = 1 /\ config.walletCount = 2
  /\ processed = << config.startIndex + 1 >>
  /\ Len(wallets) = 2

isPendingAtInit(a) ==
  \E k \in 1..Len(accountsAtInit) :
    accountsAtInit[k].id = a.id /\ accountsAtInit[k].claimStatus = "pending"

isOutstanding(a) == isPendingAtInit(a) /\ a.id \notin written

idsOf(list) == [ k \in 1..Len(list) |-> list[k].id ]

\* C2: in the claim flow, whenever a run has just computed its outstanding
\* set, that set is exactly the accounts (in sheet order) that were pending
\* and whose status write has not completed, however earlier runs ended;
\* and in the sheet exactly those accounts are pending.
C2_OutstandingIsUnwritten ==
  command = "claim" =>
    /\ \A k \in 1..Len(accounts) :
         accounts[k].claimStatus = "pending" <=> isOutstanding(accounts[k])
    /\ pc = "k_init" =>
         idsOf(pendingAccounts) = idsOf(SelectSeq(accounts, isOutstanding))

\* C2 witness: three accounts were pending, the status writes of 1 and 2
\* completed, the run ended before that of 3, and the next run has
\* computed its outstanding set: unit 3 only.
C2_Witness ==
  /\ command = "claim" /\ pc = "k_init"
  /\ \A k \in 1..3 : accountsAtInit[k].claimStatus = "pending"
  /\ written = { 1, 2 }
  /\ idsOf(pendingAccounts) = << 3 >>

\* The ids of the units of this run, in ledger order.
ledgerOrder ==
  IF command = "create" THEN unitRange(startIdx, endIdx) ELSE idsOf(pendingAccounts)

\* A unit of this run whose result is not in the ledger.
isUnpersisted(u) ==
  IF command = "create"
    THEN \A k \in 1..Len(wallets) : wallets[k].id # u
    ELSE \E k \in 1..Len(accounts) :
           accounts[k].id = u /\ accounts[k].claimStatus = "pending"

unpersistedUnits == { u \in { processed[k] : k \in 1..Len(processed) } : isUnpersisted(u) }

betweenUnits == pc \in { "c_unit", "c_report", "k_prepare", "k_home", "k_report" }

\* C3: a run takes its units in ledger order; whenever it is between two
\* units (about to start the next one, or past the last one) the result of
\* every unit it began is in the ledger, and at any time at most one unit
\* it began - the one in progress - is not.
C3_WriteBeforeNextUnit ==
  running /\ pc \notin { "c_init", "k_init" } =>
    /\ isPrefix(processed, ledgerOrder)
    /\ betweenUnits => unpersistedUnits = { }
    /\ Cardinality(unpersistedUnits) <= 1
    /\ \A u \in unpersistedUnits : u = processed[Len(processed)]

\* C3 witness: the second account of a claim run is about to have its
\* status written while the status of the first is already in the sheet.
C3_Witness ==
  /\ command = "claim" /\ pc = "k_update"
  /\ Len(processed) = 2
  /\ unpersistedUnits = { processed[2] }

\* C4: a unit workflow failure never terminates the run.
C4_WorkflowFailureNeverEndsRun == aborted \notin { "launch", "workflow" }

\* C5: after a ledger write has raised, no further processing happens: the
\* run is in the catch block that received the error, is unwinding with
\* the error, or has ended with a code other than 0.
C5_LedgerWriteFailureIsFatal ==
  writeFailed =>
    /\ pc \in { "k_catch", "cleanup", "ended" }
    /\ pc = "cleanup" => pendingErr
    /\ pc = "ended" => exitCode # "0"

\* C6: every row with status created has a non-empty name, address and PIN.
C6_CreatedRowsAreComplete ==
  \A k \in 1..Len(wallets) :
    wallets[k].status = "created" =>
      /\ wallets[k].walletName # ""
      /\ wallets[k].walletAddress # ""
      /\ wallets[k].pin # << >>

hasErrorMessage(row) ==
  /\ "errorMessage" \in DOMAIN row
  /\ row.errorMessage \notin { "", Undefined }

\* C7: every row with status failed, in the Accounts sheet and in the
\* Wallets sheet, carries an error message.
C7_FailedRowsCarryMessage ==
  /\ \A k \in 1..Len(accounts) :
       accounts[k].claimStatus = "failed" => hasErrorMessage(accounts[k])
  /\ \A k \in 1..Len(wallets) :
       wallets[k].status = "failed" => hasErrorMessage(wallets[k])

\* C8: no two rows of the Wallets sheet have the same id.
C8_WalletIdsUnique ==
  \A a, b \in 1..Len(wallets) : a # b => wallets[a].id # wallets[b].id

\* C8 witness: a sheet of two rows, the second of which was added by a run
\* that found the first.
C8_Witness ==
  /\ command = "create"
  /\ Len(wallets) = 2 /\ Len(walletsAtStart) = 1
  /\ wallets[1].id = config.startIndex /\ wallets[2].id = config.startIndex + 1

attemptNumbers(calls) == [ k \in 1..Len(calls) |-> calls[k][1] ]

\* C9: when fn fails k times and then succeeds and maxRetries >= k + 1,
\* withRetry fulfils with fn's value after exactly k + 1 invocations, and
\* onRetry (when given) was called exactly k times, with 1, 2, ..., k.
C9_SucceedsAfterKFailures ==
  rpc = "settled" /\ ~script.always /\ options.maxRetries >= script.failures + 1 =>
    /\ settled = [ state |-> "fulfilled", value |-> SuccessValue ]
    /\ fnInvocations = script.failures + 1
    /\ options.onRetry => attemptNumbers(onRetryCalls) = unitRange(1, script.failures + 1)
    /\ ~options.onRetry => onRetryCalls = << >>

\* C9 witness: fn failed twice, then succeeded, under maxRetries = 3 with
\* an onRetry callback.
C9_Witness ==
  /\ rpc = "settled" /\ ~script.always /\ script.failures = 2
  /\ options.maxRetries = 3 /\ options.onRetry
  /\ settled.state = "fulfilled"
  /\ Len(onRetryCalls) = 2

\* C10 as stated: when fn always fails and maxRetries = m >= 0, withRetry
\* invokes fn exactly m + 1 times and rejects with the very value the last
\* invocation raised.
C10_RejectsWithRaisedValue ==
  rpc = "settled" /\ script.always /\ options.maxRetries >= 0 =>
    /\ fnInvocations = options.maxRetries + 1
    /\ settled = [ state |-> "rejected", value |-> fnCalls[Len(fnCalls)] ]

\* C10 amended: when fn always fails and maxRetries = m >= 0, withRetry
\* invokes fn exactly m + 1 times and rejects with the value the last
\* invocation raised if that value is an Error, and otherwise with a new
\* Error whose message is String(value).
C10_RejectsWithNormalisedError ==
  rpc = "settled" /\ script.always /\ options.maxRetries >= 0 =>
    LET raised == fnCalls[Len(fnCalls)]
    IN /\ fnInvocations = options.maxRetries + 1
       /\ Len(fnCalls) = fnInvocations
       /\ settled.state = "rejected"
       /\ raised.type = "Error" => settled.value = raised
       /\ raised.type # "Error" =>
            settled.value = [ type |-> "Error", ref |-> "new", message |-> String(raised) ]

\* C10 witness: fn always failed under maxRetries = 2, the third invocation
\* raised a string, and withRetry has rejected.
C10_Witness ==
  /\ rpc = "settled" /\ script.always /\ options.maxRetries = 2
  /\ fnInvocations = 3
  /\ fnCalls[3].type = "string"
  /\ settled.state = "rejected"

\* C11: no invocation of fn by withRetry happens while the recovery that
\* an earlier onRetry call started is still in progress.
C11_RecoveryCompletesBeforeNextAttempt == ~invokedDuringRecovery

\* C12: at most one operation on the device session is in flight.
C12_OneDeviceOperationInFlight == Cardinality(inFlight) <= 1

\* C13: a run that opened a session and has ended - in whatever way - has
\* had cleanup() called.
C13_CleanupOnEveryEnd == pc = "ended" /\ sessionOpened => cleanedUp

\* C14: cleanup() never raises, whichever of its steps fails, and leaves
\* the driver closed; a second cleanup() then makes no deleteSession call
\* and no kill, raises nothing and leaves the driver as it is.  In the run:
\* once cleanup() has been called the driver is closed, and a run whose
\* try block completed exits with code 0.
C14_CleanupSafeAndIdempotent ==
  /\ pc = "cleanup" =>
       \A df1, kf1, df2, kf2 \in BOOLEAN :
         LET first  == cleanupDriver(driver, df1, kf1)
             second == cleanupDriver(first.driver, df2, kf2)
         IN /\ ~first.raised
            /\ first.driver = NoDriver
            /\ ~second.raised
            /\ second.effects = << >>
            /\ second.driver = first.driver
  /\ cleanedUp => driver = NoDriver
  /\ pc = "ended" /\ cleanedUp /\ aborted = "no" => exitCode = "0"

\* C14 witness: a create run whose loop completed has called cleanup() on
\* a driver holding a session and a server process.
C14_Witness ==
  /\ command = "create" /\ pc = "ended" /\ exitCode = "0"
  /\ sessionOpened /\ cleanedUp
  /\ Len(processed) > 0
  /\ driver = NoDriver

\* C15: no invocation of the unit workflow raises to its caller: withRetry
\* never sees createWallet fail, neither to back off nor to give up.
C15_WorkflowNeverRaises == pc # "c_backoff" /\ aborted # "workflow"

\* C16: a unit whose failed record is about to be written has had
\* maxRetries + 1 attempts of its workflow.
C16_FailedOnlyAfterAllAttempts ==
  /\ pc = "c_append" /\ walletData.status = "failed" =>
       attempt = config.maxRetries + 1
  /\ pc = "k_update" /\ statusUpdateFor(claimResult).status = "failed" =>
       attempt = config.maxRetries + 1

logged(entry) == \E k \in 1..Len(deviceLog) : deviceLog[k] = entry

noClaimAction == ~logged("claim click") /\ ~logged("confirm click")

\* C17: an invocation of performClaim that classified the surface as
\* already_claimed returns success = true and has performed neither a claim
\* click nor a transaction confirmation (nor anything else on the device).
C17_AlreadyClaimedSucceedsWithoutAction ==
  miniAppState = "already_claimed" =>
    /\ noClaimAction
    /\ step = "w_done" =>
         /\ returned = [ success |-> TRUE, state |-> "already_claimed",
                         error |-> Undefined ]
         /\ deviceLog = << >>

\* C17 witness: performClaim has returned for a surface showing the
\* completion indicator together with the claim button.
C17_Witness ==
  /\ step = "w_done" /\ miniAppState = "already_claimed"
  /\ screen.webview
  /\ { "text*='Completed'", "button.btn-primary" } \subseteq screen.displayed
  /\ returned.success

\* C18: an invocation of performClaim that classified the surface as
\* signup, error or unknown returns success = false with a non-empty
\* reason, after a screenshot was attempted and without a claim click or a
\* transaction confirmation; for signup the reason says the form cannot be
\* claimed automatically.
C18_FailureBranchesReportReason ==
  miniAppState \in { "signup", "error", "unknown" } =>
    /\ noClaimAction
    /\ step = "w_done" =>
         /\ returned.success = FALSE
         /\ returned.error \notin { "", Undefined }
         /\ deviceLog = << "takeDebugScreenshot" >>
         /\ miniAppState = "signup" =>
              returned.error = "Signup form detected, cannot auto-claim"

\* C18 witness: performClaim has returned for a surface classified as
\* signup.
C18_Witness ==
  /\ step = "w_done" /\ miniAppState = "signup"
  /\ returned.state = "signup"
  /\ deviceLog = << "takeDebugScreenshot" >>

rank(entry) ==
  CASE entry = "claim click"             -> 1
    [] entry = "clickClaimButton: true"  -> 2
    [] entry = "clickClaimButton: false" -> 2
    [] entry = "confirm click"           -> 3
    [] entry = "verifyClaimSuccess: true"  -> 4
    [] entry = "verifyClaimSuccess: false" -> 4
    [] OTHER                             -> 5

\* C19: an invocation of performClaim that classified the surface as
\* claim_available performs the claim click, the confirmation and the
\* re-check in that order, clicks a confirmation only after clickClaimButton
\* returned true, and returns success = true exactly when the re-check
\* succeeded.
C19_ClickConfirmVerifyInOrder ==
  miniAppState = "claim_available" =>
    /\ \A j, k \in 1..Len(deviceLog) :
         j < k => rank(deviceLog[j]) <= rank(deviceLog[k])
    /\ logged("confirm click") =>
         logged("claim click") /\ logged("clickClaimButton: true")
    /\ (logged("verifyClaimSuccess: true") \/ logged("verifyClaimSuccess: false")) =>
         logged("clickClaimButton: true")
    /\ step = "w_done" =>
         (returned.success <=> logged("verifyClaimSuccess: true"))

\* C19 witness: the claim was clicked, the confirmation was clicked, the
\* re-check succeeded and performClaim returned success.
C19_Witness ==
  /\ step = "w_done" /\ miniAppState = "claim_available"
  /\ deviceLog = << "claim click", "clickClaimButton: true", "confirm click",
                    "verifyClaimSuccess: true", "takeDebugScreenshot" >>
  /\ returned.success

\* The battery of detectWebViewState as the claim states it.
Battery ==
  << [ list |-> "loading",        state |-> "loading" ],
     [ list |-> "alreadyClaimed", state |-> "already_claimed" ],
     [ list |-> "error",          state |-> "error" ],
     [ list |-> "signup",         state |-> "signup" ],
     [ list |-> "claimButton",    state |-> "claim_available" ] >>

matches(n, scr) ==
  \E k \in 1..Len(WEB_SELECTORS[Battery[n].list]) :
    /\ WEB_SELECTORS[Battery[n].list][k] \in scr.displayed
    /\ WEB_SELECTORS[Battery[n].list][k] \notin scr.raising

firstMatch(scr) ==
  IF \E n \in 1..Len(Battery) : matches(n, scr)
    THEN Battery[CHOOSE n \in 1..Len(Battery) :
                   matches(n, scr) /\ \A m \in 1..(n - 1) : ~matches(m, scr)].state
    ELSE "unknown"

\* C20: the state detectWebViewState returned for the surface it inspected
\* is the first match in the order loading, already_claimed, error, signup,
\* claim_available, and unknown when nothing displayed can be looked up.
C20_FirstMatchInOrder ==
  step = "w_switch" /\ screen.webview => miniAppState = firstMatch(screen)

\* C20 witness: error, signup and claim indicators are displayed together
\* and the state returned is error.
C20_Witness ==
  /\ step = "w_switch" /\ screen.webview
  /\ screen.displayed = { ".error-message", "form[class*='register']",
                          "button.btn-primary" }
  /\ screen.raising = { }
  /\ miniAppState = "error"

\* The signals of detectNativeState in the order the embedded
\* classification gives them.
nativeSignal(n, source) ==
  /\ source # NoSource
  /\ CASE n = 1 -> includes(source, "loading") \/ includes(source, "spinner")
       [] n = 2 -> includes(source, "already claimed") \/ includes(source, "completed")
       [] n = 3 -> includes(source, "error") \/ includes(source, "failed")
       [] n = 4 -> includes(source, "sign up") \/ includes(source, "register")
       [] n = 5 -> includes(source, "claim") \/ includes(source, "join")

\* Signal n of the battery is present on the surface detectCurrentState
\* inspected: found by a lookup of the embedded surface, or read in the
\* native page source.
signal(n) ==
  IF screen.webview THEN matches(n, screen) ELSE nativeSignal(n, pageSource)

\* C21: in the embedded and in the native classification alike, a loading
\* signal makes the result loading whatever else is present, and a
\* completion signal together with an action-available signal, without a
\* loading signal, makes it already_claimed and never claim_available.
C21_LoadingThenCompletionFirst ==
  step = "d_done" =>
    /\ signal(1) => miniAppState = "loading"
    /\ ~signal(1) /\ signal(2) /\ signal(5) => miniAppState = "already_claimed"

\* C21 witness: a native page source holding a completion phrase and a claim
\* phrase and no loading phrase was classified as already_claimed.
C21_Witness ==
  /\ step = "d_done" /\ ~screen.webview
  /\ pageSource = { "already claimed", "claim", "error" }
  /\ miniAppState = "already_claimed"

\* The first signal present, in the order loading, completion, error,
\* input-required, action-available.
firstSignal ==
  IF \E n \in 1..Len(Battery) : signal(n)
    THEN Battery[CHOOSE n \in 1..Len(Battery) :
                   signal(n) /\ \A m \in 1..(n - 1) : ~signal(m)].state
    ELSE "unknown"

\* C22: the native classification returns the first signal present in the
\* order of the embedded classification: loading, completion, error,
\* input-required, action-available.
C22_NativeOrderIsEmbeddedOrder ==
  step = "d_done" /\ ~screen.webview => miniAppState = firstSignal

\* C23: whenever detectCurrentState, waitForMiniAppLoad, clickClaimButton
\* or verifyClaimSuccess returns normally the active context is NATIVE_APP,
\* whatever the checks inside the embedded surface found or raised.
C23_NativeOnNormalReturn ==
  surface.outcome = "returned" => surface.context = "NATIVE_APP"

\* C23 witness: clickClaimButton switched to the embedded surface, a switch
\* back inside the loop raised and was caught, and the operation returned.
C23_Witness ==
  /\ surface.operation = "clickClaimButton"
  /\ surface.outcome = "returned"
  /\ surface.switched /\ surface.rest
  /\ screen.raising # { }

\* The candidates of the list that exist.
existing == { k \in 1..Len(lookup.selectors) : lookup.selectors[k] = "exists" }

\* findByMultipleSelectors has a session and is running or has ended.
resolving == lookup # NoLookup /\ lookup.ready

\* C24: findByMultipleSelectors checks the candidates in list order, each at
\* most once and none after the hit; it returns the element of the
\* lowest-index existing candidate, and null, without raising, when no
\* candidate exists, the empty list included.
C24_FirstExistingInOrder ==
  resolving =>
    /\ \A k \in 1..Len(lookup.checked) : lookup.checked[k] = k
    /\ lookup.pc = "f_done" =>
         /\ lookup.result.kind # "raise"
         /\ existing = { } => lookup.result.kind = "null"
         /\ existing # { } =>
              /\ lookup.result.kind = "element"
              /\ lookup.result.index \in existing
              /\ \A k \in existing : lookup.result.index <= k
              /\ Len(lookup.checked) = lookup.result.index

\* C24 witness: of three candidates the second and the third exist; the
\* first two were checked and the second was returned.
C24_Witness ==
  /\ resolving /\ lookup.pc = "f_done"
  /\ lookup.selectors = << "absent", "exists", "exists" >>
  /\ lookup.checked = << 1, 2 >>
  /\ lookup.result = [ kind |-> "element", index |-> 2 ]

\* C25: a candidate whose check raises is skipped: when a later candidate
\* exists, the resolution goes on past the failure and returns an element.
C25_FailedCheckIsTryNext ==
  resolving /\ lookup.pc = "f_done" =>
    \A j \in 1..Len(lookup.selectors) :
      /\ lookup.selectors[j] = "fails"
      /\ \E k \in existing : k > j
      => /\ lookup.result.kind = "element"
         /\ lookup.result.index \in existing

\* C25 witness: the check of the first candidate raised and the second
\* candidate, which exists, was returned.
C25_Witness ==
  /\ resolving /\ lookup.pc = "f_done"
  /\ lookup.selectors = << "fails", "exists" >>
  /\ lookup.checked = << 1, 2 >>
  /\ lookup.result = [ kind |-> "element", index |-> 2 ]

\* C26: findByMultipleSelectors raises exactly when the device cannot be
\* reached: without a session, or when the check of every candidate fails at
\* transport level; it never raises because no candidate exists.
C26_RaisesExactlyOnTransportFailure ==
  lookup # NoLookup /\ lookup.pc = "f_done" =>
    (lookup.result.kind = "raise" <=>
       \/ ~lookup.ready
       \/ /\ lookup.selectors # << >>
          /\ \A k \in 1..Len(lookup.selectors) : lookup.selectors[k] = "fails")

\* The number of polls the claim allows a loop.
pollLimit ==
  IF poll.loop = "dismissPermissionDialog" THEN 5
  ELSE (2 * poll.elementTimeout + 1999) \div 2000

\* C28: every polling loop ends, and when the awaited signal never appears
\* waitForWalletCreation and waitForMiniAppLoad have made at most
\* ceil(2 * elementTimeout / 2000) polls and dismissPermissionDialog at
\* most 5.
C28_PollingLoopsTerminate ==
  /\ [](poll.polls <= pollLimit)
  /\ <>(poll.pc = "p_done")

\* C28 witness: waitForWalletCreation under an element timeout of 2001 ms
\* has timed out after three polls without a signal.
C28_Witness ==
  /\ poll.loop = "waitForWalletCreation" /\ poll.elementTimeout = 2001
  /\ poll.pc = "p_done" /\ poll.outcome = "timeout"
  /\ poll.polls = 3

\* createWallet is running or has ended.
creating == creation # NoCreation

\* Entry k of the log is followed by entry name.
followedBy(k, name) ==
  \E j \in (k + 1)..Len(creation.log) : creation.log[j] = name

\* C27: when waitForWalletCreation has timed out, createWallet does not
\* raise: it goes on to read the wallet name and the wallet address and
\* returns a record.
C27_TimeoutDegradesTheRead ==
  creating /\ creation.waited = "timeout" =>
    /\ creation.pc \in { "cw_try", "cw_done" }
    /\ creation.error = Undefined
    /\ creation.pc = "cw_done" =>
         /\ creation.result.kind = "return"
         /\ \E k \in 1..Len(creation.log) :
              /\ creation.log[k] = "waitForWalletCreation"
              /\ followedBy(k, "readWalletName")
              /\ followedBy(k, "readWalletAddress")

\* C27 witness: the wait timed out, the name and the address were read all
\* the same, and createWallet returned the record.
C27_Witness ==
  /\ creating /\ creation.waited = "timeout" /\ creation.pc = "cw_done"
  /\ creation.walletName = "name.base.eth" /\ creation.walletAddress = "0xA1"
  /\ creation.result.kind = "return"

\* The errors of a required element that was not found.
StepNotFound ==
  { "'Create Account' button not found on welcome screen",
    "Digit button not found on screen" }

\* The diagnostic captures.
Diagnostics ==
  { "takeDebugScreenshot no_create_account_btn", "dumpCurrentScreen error",
    "takeDebugScreenshot error" }

\* The step a not-found error comes from.
failingStep == creation.failedAt

\* C29: when the create-account button or a PIN digit button is not found,
\* createWallet raises, nothing but diagnostic captures is executed after
\* the failing step, and a capture has been attempted by the time the error
\* reaches the caller.
C29_NotFoundCapturesThenRaises ==
  creating /\ creation.error \in StepNotFound =>
    \E k \in 1..Len(creation.log) :
      /\ failingStep \in { "clickCreateNewWallet", "enterPin", "confirmPin" }
      /\ creation.log[k] = failingStep
      /\ \A j \in (k + 1)..Len(creation.log) : creation.log[j] \in Diagnostics
      /\ creation.pc = "cw_done" =>
           /\ creation.result = [ kind |-> "throw", error |-> creation.error ]
           /\ \E j \in (k + 1)..Len(creation.log) : creation.log[j] \in Diagnostics

\* C29 witness: a PIN digit button was not found, the screen was dumped and
\* a screenshot taken, and the error reached the caller.
C29_Witness ==
  /\ creating /\ creation.pc = "cw_done"
  /\ creation.result = [ kind |-> "throw",
                         error |-> "Digit button not found on screen" ]
  /\ creation.log[Len(creation.log)] = "takeDebugScreenshot error"
  /\ creation.failedAt = "enterPin"

\* C30: appendWallet adds exactly one row after the existing rows and
\* leaves them as they were: loadWallets after an appendWallet returns the
\* list it returned before followed by the record appended, with its id,
\* name, address, PIN, timestamp and status.
C30_AppendAddsOneRecord ==
  [][ wallets' # wallets =>
        loadWallets(wallets') = Append(loadWallets(wallets), addRow(walletData)) ]_vars

\* C31: a run that has opened a session and started processing units leaves
\* its unit loop only through exportReport, however many units failed.  A
\* process that is killed is left aside.
C31_RunEndsWithReport ==
  [][ /\ pc \notin { "cleanup", "ended" }
      /\ pc' \in { "cleanup", "ended" }
      /\ exitCode' # "killed"
      /\ sessionOpened /\ processed # << >>
      => pc \in { "c_report", "k_report" } ]_vars

\* C32: a claim is performed and recorded for an account only while the app
\* is logged in as that account.
C32_ClaimsAsTheAccountLoggedIn ==
  app # NoApp => \A c \in app.claims : c.loggedInAs = c.account

\* C33: one invocation of clickClaimButton clicks at most one element,
\* also when the switch back to the native context fails after the click.
C33_AtMostOneClaimClick ==
  surface # NoSurface => surface.clicks <= 1

\* The state of the wallet-creation workflow a step belongs to: start,
\* permission handling, create-account click, PIN entry, PIN confirmation,
\* awaiting completion; 0 for the steps in between.
phase(name) ==
  CASE name \in { "resetApp", "launch" } -> 1
    [] name = "dismissPermissionDialog" -> 2
    [] name = "clickCreateNewWallet" -> 3
    [] name = "enterPin" -> 4
    [] name = "confirmPin" -> 5
    [] name = "waitForWalletCreation" -> 6
    [] OTHER -> 0

\* The positions of the log that belong to a state of the workflow.
phaseSteps == { k \in 1..Len(creation.log) : phase(creation.log[k]) # 0 }

\* C34: one createWallet attempt passes through start, permission
\* handling, create-account click, PIN entry, PIN confirmation and awaiting
\* completion in this order, each step once and none skipped, and ends by
\* returning or raising; the PIN is entered only after the create-account
\* click has returned, and the record is built only after the wait.
C34_StatesInOrder ==
  creating =>
    /\ \A j, k \in phaseSteps :
         /\ j < k => phase(creation.log[j]) <= phase(creation.log[k])
         /\ j # k => creation.log[j] # creation.log[k]
    /\ \A k \in phaseSteps :
         phase(creation.log[k]) > 1 =>
           \E j \in phaseSteps :
             j < k /\ phase(creation.log[j]) = phase(creation.log[k]) - 1
    /\ \A k \in phaseSteps :
         creation.log[k] = "enterPin" =>
           /\ \E j \in 1..(k - 1) : creation.log[j] = "clickCreateNewWallet"
           /\ creation.failedAt # "clickCreateNewWallet"
    /\ creation.result.kind = "return" =>
         \E k \in phaseSteps : creation.log[k] = "waitForWalletCreation"
    /\ creation.pc = "cw_done" => creation.result.kind \in { "return", "throw" }

\* C34 witness: an attempt went through every step and returned the record.
C34_Witness ==
  /\ creating /\ creation.pc = "cw_done"
  /\ creation.result.kind = "return"
  /\ { phase(creation.log[k]) : k \in phaseSteps } = 1..6
  /\ creation.waited = "found"

\* The multiplier of the options, 2 when none is given.
multiplier ==
  IF options \in [ maxRetries : Int, delayMs : Int, onRetry : BOOLEAN ]
    THEN 2 ELSE options.backoffMultiplier

\* The number of failed attempts that are followed by another attempt.
retriedFailures ==
  IF Len(fnCalls) <= options.maxRetries THEN Len(fnCalls)
  ELSE IF options.maxRetries > 0 THEN options.maxRetries ELSE 0

\* C35: withRetry has waited once after each failed attempt but the final
\* one, the first time delayMs and each further time the delay before
\* multiplied by backoffMultiplier (2 when none is given), and has invoked
\* onRetry once for each of these failures, with its number; after the final
\* failed attempt it has neither waited nor invoked onRetry.
C35_BackoffIsGeometric ==
  /\ Len(waits) = retriedFailures
  /\ \A n \in 1..Len(waits) :
       waits[n] = IF n = 1 THEN options.delayMs ELSE waits[n - 1] * multiplier
  /\ Len(onRetryCalls) = IF options.onRetry THEN Len(waits) ELSE 0
  /\ \A n \in 1..Len(onRetryCalls) : onRetryCalls[n][1] = n

\* C35 witness: under maxRetries = 2 and no multiplier given, three attempts
\* failed; withRetry waited 3000 and 6000, called onRetry twice, and
\* rejected.
C35_Witness ==
  /\ "backoffMultiplier" \notin DOMAIN options
  /\ options.maxRetries = 2 /\ options.onRetry
  /\ settled.state = "rejected"
  /\ Len(fnCalls) = 3
  /\ waits = << 3000, 6000 >>
  /\ Len(onRetryCalls) = 2

\* C37: for every maxRetries, 0 and negative values included, withRetry has
\* invoked the operation at least once when it settles, and what it rejects
\* with is the error of an invocation, never an absent value.
C37_InvokedBeforeSettling ==
  settled.state # "pending" =>
    /\ fnInvocations >= 1
    /\ settled.state = "rejected" =>
         /\ fnCalls # << >>
         /\ settled.value # NoError
         /\ settled.value = normalise(fnCalls[Len(fnCalls)])

\* The ledger holds a row for unit u whose status is failed.
recordedFailed(u) ==
  IF command = "create"
    THEN \E k \in 1..Len(wallets) :
           wallets[k].id = u /\ wallets[k].status = "failed"
    ELSE \E k \in 1..Len(accounts) :
           accounts[k].id = u /\ accounts[k].claimStatus = "failed"

\* The step begins work on unit u: u is appended to the units of the run.
begins(u) == processed' = Append(processed, u)

C36_ClaimFlowCase ==
  /\ command = "claim"
  /\ \E k \in 1..Len(accounts) :
       /\ accounts[k].claimStatus = "failed"
       /\ accounts[k].id \notin written
  /\ Len(processed) = 2
\* C38: when cleanup() has returned, every server process the run spawned
\* (and that has not exited by itself) has been told to stop, the process
\* of a failed initialize() attempt included.
C38_EverySpawnedServerStopped ==
  servers.pc = "s_done" =>
    \A p \in servers.spawned \ servers.exited : p \in servers.stopped
\* The value performClaim returns when the miniapp did not load.
loadTimeout ==
  [ success |-> FALSE, state |-> "loading",
    error |-> "MiniApp failed to load within timeout" ]

\* C39: when no WEBVIEW_ context is listed while performClaim waits for the
\* miniapp (and no device call raises), performClaim returns at once with
\* success false, state loading and the load-timeout error: the state is
\* never classified, in the embedded surface or in the native one, and the
\* only device call recorded is the debug screenshot - no click.
C39_NoSurfaceIsLoadTimeout ==
  [][ step = "w_idle" /\ ~screen.webview /\ returned'.state # "error" =>
        /\ step' = "w_done"
        /\ returned' = loadTimeout
        /\ miniAppState' = "none"
        /\ deviceLog' = << "takeDebugScreenshot" >> ]_vars

\* C39 witness: performClaim has returned the load timeout on a screen that
\* lists no WEBVIEW_ context and shows no loading indicator.
C39_Witness ==
  /\ step = "w_done"
  /\ ~screen.webview /\ screen.displayed = { }
  /\ returned = loadTimeout
  /\ miniAppState = "none"
\* C40: after assignLinksToAccounts the k-th pending account carries the
\* k-th link for every k up to the number of links, whatever link it had;
\* an account beyond the links carries its own link when it had one and the
\* first link otherwise; nothing else of the accounts changes.
C40_LinksAssignedByPosition ==
  linking.pc = "l_done" /\ Len(linking.links) > 0 =>
    /\ Len(linking.pendingAccounts) = Len(linking.loaded)
    /\ \A k \in 1..Len(linking.loaded) :
         /\ linking.pendingAccounts[k].id = linking.loaded[k].id
         /\ linking.pendingAccounts[k].claimLink =
              IF k <= Len(linking.links) THEN linking.links[k]
              ELSE IF linking.loaded[k].claimLink # ""
                THEN linking.loaded[k].claimLink
                ELSE linking.links[1]

\* C40 witness: one link for three accounts; the first had a link of its
\* own and lost it, the second keeps its own, the third had none and shares
\* the first link with the first account.
C40_Witness ==
  /\ linking.pc = "l_done"
  /\ Len(linking.links) = 1 /\ Len(linking.loaded) = 3
  /\ linking.loaded[1].claimLink = "own-1"
  /\ linking.loaded[2].claimLink = "own-2"
  /\ linking.loaded[3].claimLink = ""
  /\ linking.pendingAccounts[1].claimLink = linking.links[1]
  /\ linking.pendingAccounts[2].claimLink = "own-2"
  /\ linking.pendingAccounts[3].claimLink = linking.links[1]
====
